---- MODULE Spec2Model ----
(***************************************************************************)
(* Model of the Daxa V4 core: the schema registry (SchemaV4), the type     *)
(* algebra (DaxaTypeV4), the runtime values (DaxaValue) and the validator  *)
(* (DaxaValidatorV4).                                                      *)
(*                                                                         *)
(* Outcomes of a call are strings: "ok" for a normal return, the name of   *)
(* the Daxa exception class for a raised DaxaError, and "Py..." for an     *)
(* exception raised by the Python interpreter itself (TypeError for a bad  *)
(* keyword argument, RecursionError for an exhausted call stack).          *)
(***************************************************************************)
EXTENDS Integers, Sequences, FiniteSets, TLC

VARIABLES
    definitions,   \* SchemaV4._definitions: the definitions, in insertion order
    constants,     \* SchemaV4._constants: sequence of [name, value, declared_type]
    cache,         \* SchemaV4._type_parse_cache: sequence of [key, type]
    validated,     \* SchemaV4._validated_integrity
    validator,     \* the DaxaValidatorV4 built on the schema, if any
    last,          \* the last call made and how it ended
    shared,        \* the type that call returned is the very object the cache
                   \* holds under the type string of the call
    callers,       \* the threads that use the schema at the same time, each
                   \* with its position in parse_type_string / validate_value
    stack          \* the frames of the validate_value call that is running

vars ==
    <<definitions, constants, cache, validated, validator, last, shared, callers,
      stack>>

-----------------------------------------------------------------------------
(* Bounds of the model *)

\* Frames the interpreter allows before it raises RecursionError.
RecursionLimit == 6

\* Definitions and constants a schema is given.
MaxDefs == 2
MaxConsts == 1

-----------------------------------------------------------------------------
(* common.py *)

MAX_RECURSION_DEPTH_V4 == 100

OK == "ok"
DaxaValidationError == "DaxaValidationError"
DaxaSchemaError == "DaxaSchemaError"
DaxaTypeError == "DaxaTypeError"
DaxaNameError == "DaxaNameError"
DaxaInternalError == "DaxaInternalError"
PyTypeError == "PyTypeError"
PyRecursionError == "PyRecursionError"

\* DaxaTypeEnumV4.is_primitive
is_primitive(k) ==
    k \in {"NULL", "INT", "FLOAT", "STRING", "BOOL", "DATETIME", "UUID", "BYTES"}

\* DaxaTypeEnumV4.is_collection: used by the validator, defined nowhere in the
\* sources at hand; ARRAY and MAP are the collection kinds of the enum.
is_collection(k) == k \in {"ARRAY", "MAP"}

\* DaxaTypeEnumV4.is_instance_type
is_instance_type(k) ==
    is_primitive(k) \/ k \in {"ENUM_INSTANCE", "STRUCT_INSTANCE", "ARRAY", "MAP",
                              "ANY", "DXD_SOURCE_CONTENT", "MATH_SOURCE_CONTENT"}

\* The members of DaxaTypeEnumV4 in declaration order, each as
\* <<NAME, value, value.replace("_", "-"), NAME.lower()>>. The tags
\* SCHEMA_STRUCT_DEF, SCHEMA_ENUM_DEF and SCHEMA_ALIAS_DEF that schema.py and
\* validator.py put on named references are kinds of the model beside these.
EnumMembers ==
    << <<"NULL", "null", "null", "null">>,
       <<"INT", "int", "int", "int">>,
       <<"FLOAT", "float", "float", "float">>,
       <<"STRING", "string", "string", "string">>,
       <<"BOOL", "bool", "bool", "bool">>,
       <<"ENUM_INSTANCE", "enum_instance", "enum-instance", "enum_instance">>,
       <<"STRUCT_INSTANCE", "struct_instance", "struct-instance", "struct_instance">>,
       <<"ARRAY", "array", "array", "array">>,
       <<"MAP", "map", "map", "map">>,
       <<"SCHEMA_STRUCT_KEYWORD", "struct_keyword", "struct-keyword",
         "schema_struct_keyword">>,
       <<"SCHEMA_ENUM_KEYWORD", "enum_keyword", "enum-keyword", "schema_enum_keyword">>,
       <<"SCHEMA_TYPE_ALIAS_KEYWORD", "type_alias_keyword", "type-alias-keyword",
         "schema_type_alias_keyword">>,
       <<"DATETIME", "datetime", "datetime", "datetime">>,
       <<"UUID", "uuid", "uuid", "uuid">>,
       <<"BYTES", "bytes", "bytes", "bytes">>,
       <<"DXD_SOURCE_CONTENT", "dxd_source_content", "dxd-source-content",
         "dxd_source_content">>,
       <<"MATH_SOURCE_CONTENT", "math_source_content", "math-source-content",
         "math_source_content">>,
       <<"ANY", "any", "any", "any">>,
       <<"UNKNOWN_TYPE", "unknown_type", "unknown-type", "unknown_type">> >>

\* Enum member .value of a kind, as a text.
EnumValue(k) ==
    IF \E i \in 1..Len(EnumMembers) : EnumMembers[i][1] = k
    THEN <<(CHOOSE m \in {EnumMembers[i] : i \in 1..Len(EnumMembers)} : m[1] = k)[2]>>
    ELSE <<>>

-----------------------------------------------------------------------------
(* schema.py: DaxaTypeV4 *)

None == [none |-> TRUE]
\* A text (a type string, a type name, a definition name) is a sequence of
\* tokens: an identifier is one token, and each of [ ] ? , is one token. The
\* empty string is <<>>, and a name that is None is NoName.
NoName == <<"<None>">>

\* `not name`: None and the empty string are both falsy.
Falsy(name) == name = NoName \/ name = <<>>

\* The fields DaxaTypeV4.__init__ stores, before its checks.
RawType(kind, name, element_type, key_type, value_type, is_optional, constraints, default_value_native, schema_context, resolved, flavor) ==
    [type_enum_kind |-> kind, name |-> name, element_type |-> element_type,
     key_type |-> key_type, value_type |-> value_type, is_optional |-> is_optional,
     constraints |-> constraints, default_value_native |-> default_value_native,
     schema_context |-> schema_context, is_resolved_structurally |-> resolved,
     syntax_flavor |-> flavor]

\* DaxaTypeV4.__init__: the construction checks, and the naming of primitives.
\* Gives [err, type].
NewType(raw) ==
    IF raw.type_enum_kind = "ARRAY" /\ raw.element_type = None
    THEN [err |-> DaxaSchemaError, type |-> None]
    ELSE IF raw.type_enum_kind = "MAP"
            /\ (raw.key_type = None \/ raw.value_type = None)
    THEN [err |-> DaxaSchemaError, type |-> None]
    ELSE IF raw.type_enum_kind = "MAP" /\ raw.key_type.type_enum_kind # "STRING"
    THEN [err |-> DaxaSchemaError, type |-> None]
    ELSE IF raw.name = NoName /\ is_primitive(raw.type_enum_kind)
    THEN [err |-> OK,
          type |-> [raw EXCEPT !.name = EnumValue(raw.type_enum_kind),
                               !.is_resolved_structurally = TRUE]]
    ELSE [err |-> OK, type |-> raw]

\* DaxaTypeV4(kind, name=..., is_optional=...) with every other argument left
\* at its default; none of the construction checks can fail for these kinds.
SimpleType(kind, name, is_optional, ctx) ==
    NewType(RawType(kind, name, None, None, None, is_optional, <<>>, None,
                    ctx, FALSE, NoName)).type

\* DaxaTypeV4.__slots__: each slot name is an underscore and the rest.
Slots ==
    { <<"_", "type_enum_kind">>, <<"_", "name">>, <<"_", "element_type">>,
      <<"_", "key_type">>, <<"_", "value_type">>, <<"_", "is_optional">>,
      <<"_", "constraints">>, <<"_", "default_value_native">>,
      <<"_", "description">>, <<"_", "attributes_raw">>, <<"_", "source_loc">>,
      <<"_", "schema_context">>, <<"_", "is_resolved_structurally">>,
      <<"_", "syntax_flavor">> }

\* The keyword parameters DaxaTypeV4.__init__ accepts.
InitParams ==
    { <<"type_enum_kind">>, <<"name">>, <<"element_type">>, <<"key_type">>,
      <<"value_type">>, <<"is_optional">>, <<"constraints">>,
      <<"default_value_native">>, <<"description">>, <<"attributes_raw">>,
      <<"source_loc">>, <<"schema_context">>,
      <<"_", "is_resolved_structurally">>, <<"_", "syntax_flavor">> }

\* DaxaTypeV4._clone_with_changes(**kwargs). current_attrs is keyed by slot[1:]
\* for every slot, then updated with the caller's keywords, and the whole
\* dictionary is passed to DaxaTypeV4(**current_attrs): a key that is no
\* parameter of __init__ makes the call raise TypeError. `changed` is the type
\* the constructor would be given. Gives [err, type].
clone_with_changes(self, kwargs, changed) ==
    LET current_attrs == {Tail(slot) : slot \in Slots} \cup kwargs
    IN  IF current_attrs \subseteq InitParams
        THEN NewType(changed)
        ELSE [err |-> PyTypeError, type |-> None]

-----------------------------------------------------------------------------
(* schema.py: the named definitions *)

\* StructDefinitionV4, EnumDefinitionV4 and TypeAliasDefinitionV4, as one
\* record shape: cls names the class, and the other fields are empty for the
\* classes that do not have them.
StructDefinitionV4(name, fields) ==
    [cls |-> "StructDefinitionV4", name |-> name, fields |-> fields,
     values |-> <<>>, target_type |-> None]

EnumDefinitionV4(name, values) ==
    [cls |-> "EnumDefinitionV4", name |-> name, fields |-> <<>>,
     values |-> values, target_type |-> None]

TypeAliasDefinitionV4(name, target_type) ==
    [cls |-> "TypeAliasDefinitionV4", name |-> name, fields |-> <<>>,
     values |-> <<>>, target_type |-> target_type]

\* FieldV4
FieldV4(name, daxa_type) == [name |-> name, daxa_type |-> daxa_type]

\* SchemaV4.get_definition(name, cls=None): the definition registered under
\* the name (of the given class, when one is asked for), or None.
get_definition(defs, name, cls) ==
    LET hits == {i \in 1..Len(defs) :
                    /\ defs[i].name = name
                    /\ (cls = "" \/ defs[i].cls = cls)}
    IN  IF hits = {} THEN None ELSE defs[CHOOSE i \in hits : TRUE]

\* DaxaTypeV4.get_resolved_type_fully. `frames` is what is left of the
\* interpreter's call stack: the method keeps no record of the aliases it has
\* been through (_visited_aliases is passed on and never read or written), so
\* the stack is the only thing that ends a chain that never reaches a base
\* type. Gives [err, type].
RECURSIVE get_resolved_type_fully(_, _, _)
get_resolved_type_fully(defs, self, frames) ==
    IF frames = 0
    THEN [err |-> PyRecursionError, type |-> None]
    ELSE IF self.type_enum_kind # "SCHEMA_ALIAS_DEF" \/ self.is_resolved_structurally
    THEN [err |-> OK, type |-> self]
    ELSE IF ~self.schema_context \/ Falsy(self.name)
    THEN [err |-> DaxaInternalError, type |-> None]
    ELSE LET target_def == get_definition(defs, self.name, "")
         IN  IF target_def # None /\ target_def.cls = "TypeAliasDefinitionV4"
             THEN LET base == get_resolved_type_fully(defs, target_def.target_type,
                                                      frames - 1)
                  IN  IF base.err # OK
                      THEN base
                      ELSE clone_with_changes(
                               base.type,
                               { <<"is_optional">>, <<"_", "is_resolved_structurally">> },
                               [base.type EXCEPT
                                   !.is_optional = self.is_optional \/ base.type.is_optional,
                                   !.is_resolved_structurally = TRUE])
             ELSE [err |-> DaxaSchemaError, type |-> None]

\* DaxaTypeV4.get_instance_type_enum. Gives [err, kind].
get_instance_type_enum(defs, self) ==
    LET r == get_resolved_type_fully(defs, self, RecursionLimit)
    IN  IF r.err # OK THEN [err |-> r.err, kind |-> ""]
        ELSE IF r.type.type_enum_kind = "SCHEMA_STRUCT_DEF"
        THEN [err |-> OK, kind |-> "STRUCT_INSTANCE"]
        ELSE IF r.type.type_enum_kind = "SCHEMA_ENUM_DEF"
        THEN [err |-> OK, kind |-> "ENUM_INSTANCE"]
        ELSE IF is_primitive(r.type.type_enum_kind)
                \/ r.type.type_enum_kind \in {"ARRAY", "MAP", "ANY",
                                              "DXD_SOURCE_CONTENT",
                                              "MATH_SOURCE_CONTENT"}
        THEN [err |-> OK, kind |-> r.type.type_enum_kind]
        ELSE [err |-> DaxaInternalError, kind |-> ""]

\* SchemaV4.resolve_type, for a DaxaTypeV4 argument.
resolve_type(defs, type_obj) == get_resolved_type_fully(defs, type_obj, RecursionLimit)

\* SchemaV4.validate_schema_integrity, the pass over the definitions: the
\* outcome of the first definition that does not resolve, or "ok". A resolved
\* DaxaTypeV4 is an object without __bool__ or __len__, so `not resolve_type(..)`
\* is never true and the two `raise DaxaSchemaError` lines are not reached.
RECURSIVE check_fields(_, _, _)
check_fields(defs, fields, j) ==
    IF j > Len(fields) THEN OK
    ELSE LET r == resolve_type(defs, fields[j].daxa_type)
         IN  IF r.err # OK THEN r.err ELSE check_fields(defs, fields, j + 1)

RECURSIVE check_definitions(_, _)
check_definitions(defs, i) ==
    IF i > Len(defs) THEN OK
    ELSE LET defn == defs[i]
             here == IF defn.cls = "TypeAliasDefinitionV4"
                     THEN resolve_type(defs, defn.target_type).err
                     ELSE IF defn.cls = "StructDefinitionV4"
                     THEN check_fields(defs, defn.fields, 1)
                     ELSE OK
         IN  IF here # OK THEN here ELSE check_definitions(defs, i + 1)

\* validate_schema_integrity without its first line: the pass is made again
\* whatever the flag says.
validate_schema_integrity_rechecks(defs, flag) ==
    LET e == check_definitions(defs, 1)
    IN  IF e # OK THEN [err |-> e, validated |-> flag]
        ELSE [err |-> OK, validated |-> TRUE]

\* SchemaV4.validate_schema_integrity: [err, validated], the flag after the call.
validate_schema_integrity(defs, flag) ==
    IF flag
    THEN [err |-> OK, validated |-> flag]
    ELSE LET e == check_definitions(defs, 1)
         IN  IF e # OK THEN [err |-> e, validated |-> flag]
             ELSE [err |-> OK, validated |-> TRUE]

-----------------------------------------------------------------------------
(* schema.py: the constraints *)

\* LengthConstraintV4.__init__: the outcome of constructing Length(min_l, max_l).
\* has_min / has_max tell whether the bound is given (not None).
LengthConstraintInit(has_min, min_l, has_max, max_l) ==
    IF has_min /\ min_l < 0 THEN DaxaSchemaError
    ELSE IF has_max /\ max_l < 0 THEN DaxaSchemaError
    ELSE IF has_min /\ has_max /\ min_l > max_l THEN DaxaSchemaError
    ELSE OK

LengthConstraintV4(has_min, min_l, has_max, max_l) ==
    [cls |-> "LengthConstraintV4", has_min |-> has_min, min |-> min_l,
     has_max |-> has_max, max |-> max_l, excl_min |-> FALSE, excl_max |-> FALSE]

RangeConstraintV4(has_min, min_v, has_max, max_v, excl_min, excl_max) ==
    [cls |-> "RangeConstraintV4", has_min |-> has_min, min |-> min_v,
     has_max |-> has_max, max |-> max_v, excl_min |-> excl_min, excl_max |-> excl_max]

\* RegexConstraintV4(pattern): the patterns of the model are literal texts
\* (sequences of characters without metacharacters), which re.compile accepts.
RegexConstraintV4(pattern) ==
    [cls |-> "RegexConstraintV4", has_min |-> FALSE, min |-> 0,
     has_max |-> FALSE, max |-> 0, excl_min |-> FALSE, excl_max |-> FALSE,
     pattern |-> pattern]

\* len(val) of a DaxaValue payload: characters, bytes or items.
PayloadLen(v) == IF v.kind = "ARRAY" THEN Len(v.items) ELSE Len(v.text)

\* LengthConstraintV4.validate without its applicability gate.
LengthValidate_ungated(c, v, type_enum) ==
    IF c.has_min /\ PayloadLen(v) < c.min THEN DaxaValidationError
    ELSE IF c.has_max /\ PayloadLen(v) > c.max THEN DaxaValidationError
    ELSE OK

\* LengthConstraintV4.validate with an exclusive upper bound.
LengthValidate_exclusive_max(c, v, type_enum) ==
    IF type_enum \notin {"STRING", "BYTES", "ARRAY"} THEN OK
    ELSE IF c.has_min /\ PayloadLen(v) < c.min THEN DaxaValidationError
    ELSE IF c.has_max /\ PayloadLen(v) >= c.max THEN DaxaValidationError
    ELSE OK

\* LengthConstraintV4.validate
LengthValidate(c, v, type_enum) ==
    IF type_enum \notin {"STRING", "BYTES", "ARRAY"} THEN OK
    ELSE IF c.has_min /\ PayloadLen(v) < c.min THEN DaxaValidationError
    ELSE IF c.has_max /\ PayloadLen(v) > c.max THEN DaxaValidationError
    ELSE OK

\* RangeConstraintV4.validate: after the applicability gate the body is a
\* comment, so the method returns None for every value.
RangeValidate(c, v, type_enum) ==
    IF type_enum \notin {"INT", "FLOAT"} THEN OK
    ELSE OK

\* RegexConstraintV4.validate: a literal pattern matches fully the text equal
\* to it. The payload of a STRING value is a str.
RegexValidate(c, v, type_enum) ==
    IF type_enum # "STRING" THEN OK
    ELSE IF v.text # c.pattern THEN DaxaValidationError
    ELSE OK

\* ConstraintV4.validate, dispatched on the class of the constraint.
ConstraintValidate(c, v, type_enum) ==
    IF c.cls = "LengthConstraintV4" THEN LengthValidate(c, v, type_enum)
    ELSE IF c.cls = "RangeConstraintV4" THEN RangeValidate(c, v, type_enum)
    ELSE RegexValidate(c, v, type_enum)

\* The first failure of the constraints of a type, in their stored order.
RECURSIVE first_constraint_failure(_, _, _, _)
first_constraint_failure(cs, i, v, type_enum) ==
    IF i > Len(cs) THEN OK
    ELSE IF ConstraintValidate(cs[i], v, type_enum) # OK
    THEN ConstraintValidate(cs[i], v, type_enum)
    ELSE first_constraint_failure(cs, i + 1, v, type_enum)

-----------------------------------------------------------------------------
(* daxa_value.py: DaxaValue *)

\* A DaxaValue: its runtime kind (daxa_type_enum) and its payload. One record
\* shape serves every kind: num for INT and FLOAT, text for STRING, BYTES and
\* ENUM_INSTANCE (a sequence of characters or one member name), items for
\* ARRAY, entries for STRUCT_INSTANCE (a sequence of [key, value] in insertion
\* order), inner for ANY (<<v>> when it wraps the DaxaValue v, <<>> when the
\* payload is an opaque Python object).
DaxaValue(kind, num, text, items, entries, inner) ==
    [kind |-> kind, num |-> num, text |-> text, items |-> items,
     entries |-> entries, inner |-> inner]

NullV == DaxaValue("NULL", 0, <<>>, <<>>, <<>>, <<>>)
IntV(n) == DaxaValue("INT", n, <<>>, <<>>, <<>>, <<>>)
FloatV(n) == DaxaValue("FLOAT", n, <<>>, <<>>, <<>>, <<>>)
StringV(t) == DaxaValue("STRING", 0, t, <<>>, <<>>, <<>>)
BytesV(t) == DaxaValue("BYTES", 0, t, <<>>, <<>>, <<>>)
BoolV == DaxaValue("BOOL", 1, <<>>, <<>>, <<>>, <<>>)
EnumV(member) == DaxaValue("ENUM_INSTANCE", 0, <<member>>, <<>>, <<>>, <<>>)
ArrayV(items) == DaxaValue("ARRAY", 0, <<>>, items, <<>>, <<>>)
StructV(entries) == DaxaValue("STRUCT_INSTANCE", 0, <<>>, <<>>, entries, <<>>)
AnyV(v) == DaxaValue("ANY", 0, <<>>, <<>>, <<>>, <<v>>)
AnyOpaque == DaxaValue("ANY", 0, <<>>, <<>>, <<>>, <<>>)
DxdV == DaxaValue("DXD_SOURCE_CONTENT", 0, <<>>, <<>>, <<>>, <<>>)
MathV == DaxaValue("MATH_SOURCE_CONTENT", 0, <<>>, <<>>, <<>>, <<>>)

Entry(key, value) == [key |-> key, value |-> value]

\* `key in daxa_map_items` and daxa_map_items[key]
HasKey(entries, key) == \E i \in 1..Len(entries) : entries[i].key = key
Lookup(entries, key) ==
    entries[CHOOSE i \in 1..Len(entries) : entries[i].key = key].value

-----------------------------------------------------------------------------
(* validator.py: DaxaValidatorV4.validate_value *)

\* str(i) for the indices that occur.
Digits == <<"0", "1", "2", "3", "4", "5", "6", "7", "8", "9">>
str(i) == Digits[i + 1]

\* ".".join(map(str, path_context or ["<root>"])): the joined path is kept as
\* the sequence of its segments.
current_path_str(path_context) ==
    IF path_context = <<>> THEN <<"<root>">> ELSE path_context

\* How a call ended: the exception class (or "ok"), and for a raised error the
\* path and the details its message carries.
Raised(err, path, msg, expected, got, allowed) ==
    [err |-> err, path |-> path, msg |-> msg, expected |-> expected, got |-> got,
     allowed |-> allowed]
Returned == Raised(OK, <<>>, "", "", "", <<>>)
\* An exception that carries no path of the validator's.
Propagated(err) == Raised(err, <<>>, "", "", "", <<>>)

RECURSIVE validate_value(_, _, _, _, _, _)
RECURSIVE validate_items(_, _, _, _, _, _, _)
RECURSIVE validate_map_entries(_, _, _, _, _, _, _)
RECURSIVE validate_struct_fields(_, _, _, _, _, _, _, _)

\* Step 5, ARRAY: the elements in order, each at path + [i]; the first failure.
validate_items(defs, strict, items, i, expected_el_type, path_context, depth) ==
    IF i > Len(items) THEN Returned
    ELSE LET r == validate_value(defs, strict, items[i], expected_el_type,
                                 path_context \o <<str(i - 1)>>, depth + 1)
         IN  IF r.err # OK THEN r
             ELSE validate_items(defs, strict, items, i + 1, expected_el_type,
                                 path_context, depth)

\* Step 5, generic map: the entry values in order, each at path + [key].
validate_map_entries(defs, strict, entries, i, exp_val_type, path_context, depth) ==
    IF i > Len(entries) THEN Returned
    ELSE LET r == validate_value(defs, strict, entries[i].value, exp_val_type,
                                 path_context \o <<entries[i].key>>, depth + 1)
         IN  IF r.err # OK THEN r
             ELSE validate_map_entries(defs, strict, entries, i + 1, exp_val_type,
                                       path_context, depth)

\* Step 5, struct instance: the declared fields in order. A present field is
\* validated at path + [name]; an absent one must be optional or defaulted.
validate_struct_fields(defs, strict, entries, fields, j, struct_name, path_context, depth) ==
    IF j > Len(fields) THEN Returned
    ELSE LET field_def == fields[j]
             here ==
               IF HasKey(entries, field_def.name)
               THEN validate_value(defs, strict, Lookup(entries, field_def.name),
                                   field_def.daxa_type,
                                   path_context \o <<field_def.name>>, depth + 1)
               ELSE LET rt == get_resolved_type_fully(defs, field_def.daxa_type,
                                                      RecursionLimit)
                    IN  IF rt.err # OK THEN Propagated(rt.err)
                        ELSE IF ~rt.type.is_optional
                                /\ rt.type.default_value_native = None
                        THEN Raised(DaxaValidationError,
                                    current_path_str(path_context),
                                    "required field missing", field_def.name, "",
                                    <<>>)
                        ELSE Returned
         IN  IF here.err # OK THEN here
             ELSE validate_struct_fields(defs, strict, entries, fields, j + 1,
                                         struct_name, path_context, depth)

\* The first key of the instance that is no declared field, as <<key>>, or <<>>.
extraneous_key(entries, fields) ==
    LET bad == {i \in 1..Len(entries) :
                   \A j \in 1..Len(fields) : fields[j].name # entries[i].key}
    IN  IF bad = {} THEN <<>>
        ELSE <<entries[CHOOSE i \in bad : \A k \in bad : i <= k].key>>

\* Lines 193-205: an enum instance against the expected enum definition.
validate_enum_member(defs, daxa_val, resolved, path_context) ==
    IF resolved.type_enum_kind # "SCHEMA_ENUM_DEF"
    THEN Propagated(DaxaInternalError)
    ELSE IF Falsy(resolved.name)
    THEN Propagated(DaxaInternalError)
    ELSE LET enum_def == get_definition(defs, resolved.name, "EnumDefinitionV4")
         IN  IF enum_def = None
             THEN Propagated(DaxaSchemaError)
             ELSE IF \A k \in 1..Len(enum_def.values) :
                         enum_def.values[k] # daxa_val.text[1]
             THEN Raised(DaxaValidationError, current_path_str(path_context),
                         "not a valid member", "", daxa_val.text[1],
                         enum_def.values)
             ELSE Returned

\* Step 5 of validate_value: the recursion into arrays, maps, struct instances
\* and the membership check of enum instances.
validate_structure(defs, strict, daxa_val, resolved, path_context, depth) ==
    IF daxa_val.kind = "ARRAY"
    THEN IF resolved.element_type = None
         THEN Propagated(DaxaInternalError)
         ELSE validate_items(defs, strict, daxa_val.items, 1, resolved.element_type,
                             path_context, depth)
    ELSE IF daxa_val.kind = "STRUCT_INSTANCE"
    THEN IF resolved.type_enum_kind = "MAP"
         THEN IF resolved.value_type = None
              THEN Propagated(DaxaInternalError)
              ELSE validate_map_entries(defs, strict, daxa_val.entries, 1,
                                        resolved.value_type, path_context, depth)
         ELSE IF resolved.type_enum_kind = "SCHEMA_STRUCT_DEF"
         THEN IF Falsy(resolved.name)
              THEN Propagated(DaxaInternalError)
              ELSE LET struct_def == get_definition(defs, resolved.name,
                                                    "StructDefinitionV4")
                   IN  IF struct_def = None
                       THEN Propagated(DaxaSchemaError)
                       ELSE LET r == validate_struct_fields(
                                         defs, strict, daxa_val.entries,
                                         struct_def.fields, 1, resolved.name,
                                         path_context, depth)
                                extra == extraneous_key(daxa_val.entries,
                                                        struct_def.fields)
                            IN  IF r.err # OK THEN r
                                ELSE IF strict /\ extra # <<>>
                                THEN Raised(DaxaValidationError,
                                            current_path_str(path_context),
                                            "extraneous field", extra[1], "", <<>>)
                                ELSE Returned
         ELSE Returned
    ELSE IF daxa_val.kind = "ENUM_INSTANCE"
    THEN validate_enum_member(defs, daxa_val, resolved, path_context)
    ELSE Returned

\* Steps 2 to 5 of validate_value, on the resolved expected type.
validate_resolved(defs, strict, daxa_val, resolved, path_context, depth) ==
    IF daxa_val.kind = "NULL"
    THEN IF resolved.is_optional
         THEN Returned
         ELSE Raised(DaxaValidationError, current_path_str(path_context),
                     "not optional", "", "", <<>>)
    ELSE
    LET expected_instance_enum == get_instance_type_enum(defs, resolved)
        value_instance_enum == daxa_val.kind
        kind_check ==
            IF expected_instance_enum.kind = "ANY" THEN Returned
            ELSE IF value_instance_enum = "ANY"
            THEN IF daxa_val.inner # <<>>
                 THEN validate_value(defs, strict, daxa_val.inner[1], resolved,
                                     path_context, depth + 1)
                 ELSE Raised(DaxaTypeError, current_path_str(path_context),
                             "opaque any", expected_instance_enum.kind, "ANY", <<>>)
            ELSE IF expected_instance_enum.kind = "FLOAT" /\ value_instance_enum = "INT"
            THEN Returned
            ELSE IF value_instance_enum # expected_instance_enum.kind
            THEN Raised(DaxaTypeError, current_path_str(path_context),
                        "type mismatch", expected_instance_enum.kind,
                        value_instance_enum, <<>>)
            ELSE Returned
        constraint_check ==
            first_constraint_failure(resolved.constraints, 1, daxa_val,
                                     value_instance_enum)
    IN  IF expected_instance_enum.err # OK
        THEN Propagated(expected_instance_enum.err)
        ELSE IF kind_check.err # OK THEN kind_check
        ELSE IF constraint_check # OK
        THEN Raised(DaxaValidationError, current_path_str(path_context),
                    "constraint failed", "", "", <<>>)
        ELSE validate_structure(defs, strict, daxa_val, resolved, path_context, depth)

\* A validate_value that returns normally for every array, whatever the
\* validation of its elements would do.
validate_value_swallowing(defs, strict, daxa_val, expected_daxa_type, path_context, depth) ==
    IF daxa_val.kind = "ARRAY" THEN Returned ELSE Propagated(PyTypeError)

\* DaxaValidatorV4.validate_value(daxa_val, expected_daxa_type, path_context,
\* recursion_depth). path_context None is the empty sequence.
validate_value(defs, strict, daxa_val, expected_daxa_type, path_context, depth) ==
    IF depth > MAX_RECURSION_DEPTH_V4
    THEN Raised(DaxaValidationError, path_context, "max recursion depth", "", "", <<>>)
    ELSE
    LET type_to_validate_against ==
            clone_with_changes(expected_daxa_type, { <<"schema_context">> },
                               [expected_daxa_type EXCEPT !.schema_context = TRUE])
    IN  IF type_to_validate_against.err # OK
        THEN Propagated(type_to_validate_against.err)
        ELSE
        LET resolved_expected_type ==
                get_resolved_type_fully(defs, type_to_validate_against.type,
                                        RecursionLimit)
        IN  IF resolved_expected_type.err = DaxaSchemaError
            THEN Raised(DaxaValidationError, current_path_str(path_context),
                        "invalid expected type", "", "", <<>>)
            ELSE IF resolved_expected_type.err # OK
            THEN Propagated(resolved_expected_type.err)
            ELSE validate_resolved(defs, strict, daxa_val,
                                   resolved_expected_type.type, path_context, depth)

-----------------------------------------------------------------------------
(* schema.py: SchemaV4.parse_type_string *)

\* s.lower() of a token: the capitalised tokens that occur, and every other
\* token of the model is lower case already or has no lower-case keyword.
Lower(tok) ==
    IF tok \in {"INT", "Int"} THEN "int"
    ELSE IF tok = "Any" THEN "any"
    ELSE tok

\* DaxaTypeEnumV4.from_string on a one-token string: the kind, or "" for
\* ValueError. The first member matches whose value (with - for _) is s.lower()
\* or whose name in lower case is s.lower() with _ for -; then the aliases of
\* other languages are tried. No token of the model holds a hyphen, so
\* s.lower().replace("-", "_") is s.lower().
from_string(tok) ==
    LET s == Lower(tok)
        byMember == {i \in 1..Len(EnumMembers) :
                        EnumMembers[i][3] = s \/ EnumMembers[i][4] = s}
    IN  IF byMember # {}
        THEN EnumMembers[CHOOSE i \in byMember : \A k \in byMember : i <= k][1]
        ELSE IF s \in {"integer", "long"} THEN "INT"
        ELSE IF s \in {"number", "double", "decimal"} THEN "FLOAT"
        ELSE IF s = "boolean" THEN "BOOL"
        ELSE IF s \in {"object", "dict", "dictionary"} THEN "STRUCT_INSTANCE"
        ELSE IF s \in {"list", "vector"} THEN "ARRAY"
        ELSE IF s = "timestamp" THEN "DATETIME"
        ELSE IF s = "guid" THEN "UUID"
        ELSE IF s \in {"blob", "binary"} THEN "BYTES"
        ELSE ""

\* `key in self._type_parse_cache` and the entry.
Cached(c, key) == \E i \in 1..Len(c) : c[i].key = key
CacheEntry(c, key) == c[CHOOSE i \in 1..Len(c) : c[i].key = key].type

\* A cache that keeps every object stored: a second store under a key adds a
\* second entry.
CachePut_appending(c, key, dt) == Append(c, [key |-> key, type |-> dt])

\* self._type_parse_cache[key] = dt: a new key goes last, an old key keeps
\* its place.
CachePut(c, key, dt) ==
    IF Cached(c, key)
    THEN [i \in 1..Len(c) |-> IF c[i].key = key THEN [key |-> key, type |-> dt]
                              ELSE c[i]]
    ELSE Append(c, [key |-> key, type |-> dt])

\* DaxaTypeV4.copy(), which the cache hit calls: a copy equal to the entry.
copy(dt) == dt

\* SchemaV4.parse_type_string(type_str). Gives [err, type, cache]: the outcome,
\* the type returned and the cache after the call.
RECURSIVE parse_type_string(_, _)
parse_type_string(c, type_str) ==
    IF Cached(c, type_str)
    THEN [err |-> OK, type |-> copy(CacheEntry(c, type_str)), cache |-> c]
    ELSE
    LET is_optional == Len(type_str) > 0 /\ type_str[Len(type_str)] = "?"
        base_type_str == IF is_optional THEN SubSeq(type_str, 1, Len(type_str) - 1)
                         ELSE type_str
        n == Len(base_type_str)
        done(dt, c2) ==
            [err |-> OK, type |-> [dt EXCEPT !.schema_context = TRUE],
             cache |-> CachePut(c2, type_str, [dt EXCEPT !.schema_context = TRUE])]
    IN  IF base_type_str = <<"int">>
        THEN done(SimpleType("INT", <<"int">>, is_optional, FALSE), c)
        ELSE IF base_type_str = <<"string">>
        THEN done(SimpleType("STRING", <<"string">>, is_optional, FALSE), c)
        ELSE IF n >= 2 /\ base_type_str[1] = "[" /\ base_type_str[n] = "]"
        THEN LET el == parse_type_string(c, SubSeq(base_type_str, 2, n - 1))
                 dt == NewType(RawType("ARRAY", NoName, el.type, None, None,
                                       is_optional, <<>>, None, FALSE, FALSE,
                                       <<"shorthand_array">>))
             IN  IF el.err # OK THEN el
                 ELSE IF dt.err # OK
                 THEN [err |-> dt.err, type |-> None, cache |-> el.cache]
                 ELSE done(dt.type, el.cache)
        ELSE LET primitive_enum == IF n = 1 THEN from_string(base_type_str[1]) ELSE ""
                 dt == IF primitive_enum # ""
                       THEN NewType(RawType(primitive_enum, base_type_str, None, None,
                                            None, is_optional, <<>>, None, FALSE,
                                            FALSE, NoName))
                       ELSE NewType(RawType("SCHEMA_ALIAS_DEF", base_type_str, None,
                                            None, None, is_optional, <<>>, None,
                                            FALSE, FALSE, NoName))
             IN  IF dt.err # OK
                 THEN [err |-> dt.err, type |-> None, cache |-> c]
                 ELSE done(dt.type, c)

-----------------------------------------------------------------------------
(* schema.py: ConstantDefinitionV4 and the registry's add methods *)

ConstantDefinitionV4(name, daxa_value, declared_type) ==
    [name |-> name, daxa_value |-> daxa_value, declared_type |-> declared_type]

\* add_definition with a namespace for each class of definition: a name is
\* taken only by a definition of the same class.
add_definition_per_class(defs, defn) ==
    IF get_definition(defs, defn.name, defn.cls) # None
    THEN [err |-> DaxaNameError, definitions |-> defs]
    ELSE [err |-> OK, definitions |-> Append(defs, defn)]

\* SchemaV4.add_definition(defn): DaxaNameError when the name is taken in the
\* one namespace of structs, enums and aliases. Gives [err, definitions].
add_definition(defs, defn) ==
    IF get_definition(defs, defn.name, "") # None
    THEN [err |-> DaxaNameError, definitions |-> defs]
    ELSE [err |-> OK, definitions |-> Append(defs, defn)]

\* SchemaV4.add_constant(const_def): DaxaNameError on a duplicate constant name.
add_constant(consts, const_def) ==
    IF \E i \in 1..Len(consts) : consts[i].name = const_def.name
    THEN [err |-> DaxaNameError, constants |-> consts]
    ELSE [err |-> OK, constants |-> Append(consts, const_def)]

-----------------------------------------------------------------------------
(* validator.py: DaxaValidatorV4.__init__ *)

\* DaxaValidatorV4(schema, strict_field_checking): [err, validated], the
\* outcome and the schema's flag after the call. A DaxaSchemaError of the
\* integrity check is raised again as DaxaValidationError; nothing else is caught.
validator_init(defs, flag) ==
    IF ~flag
    THEN LET r == validate_schema_integrity(defs, flag)
         IN  IF r.err = DaxaSchemaError
             THEN [err |-> DaxaValidationError, validated |-> r.validated]
             ELSE r
    ELSE [err |-> OK, validated |-> flag]

-----------------------------------------------------------------------------
(* The types, definitions, constants and values the calls are made with *)

\* What parse_type_string returns for a name that is no primitive keyword.
Ref(name, is_optional) == SimpleType("SCHEMA_ALIAS_DEF", name, is_optional, TRUE)
\* What parse_type_string returns for a primitive keyword.
Prim(kind, is_optional) == SimpleType(kind, EnumValue(kind), is_optional, TRUE)
\* A reference built with the tag of the definition it names.
StructRef(name, is_optional) == SimpleType("SCHEMA_STRUCT_DEF", name, is_optional, TRUE)
EnumRef(name, is_optional) == SimpleType("SCHEMA_ENUM_DEF", name, is_optional, TRUE)
\* What parse_type_string returns for [T].
ArrayOf(el, is_optional) ==
    [NewType(RawType("ARRAY", NoName, el, None, None, is_optional, <<>>, None,
                     FALSE, FALSE, <<"shorthand_array">>)).type
        EXCEPT !.schema_context = TRUE]
\* DaxaTypeV4(MAP, key_type=string, value_type=...) of this schema, for
\* map[string, V].
MapOf(value_type, is_optional) ==
    NewType(RawType("MAP", NoName, None, SimpleType("STRING", NoName, FALSE, TRUE),
                    value_type, is_optional, <<>>, None, TRUE, FALSE, NoName)).type
\* A type with a default value attached.
WithDefault(t) == [t EXCEPT !.default_value_native = [py |-> "literal"]]

UserFields ==
    << FieldV4("id", Prim("INT", FALSE)),
       FieldV4("name", Prim("STRING", FALSE)),
       FieldV4("tag", EnumRef(<<"Status">>, TRUE)),
       FieldV4("level", WithDefault(Prim("INT", FALSE))) >>

Definitions ==
    << TypeAliasDefinitionV4(<<"A">>, Ref(<<"B">>, FALSE)),
       TypeAliasDefinitionV4(<<"B">>, Ref(<<"A">>, FALSE)),
       TypeAliasDefinitionV4(<<"A">>, Ref(<<"A">>, FALSE)),
       TypeAliasDefinitionV4(<<"A">>, Prim("INT", FALSE)),
       TypeAliasDefinitionV4(<<"B">>, Prim("INT", TRUE)),
       StructDefinitionV4(<<"User">>, UserFields),
       StructDefinitionV4(<<"Node">>, <<FieldV4("next", Ref(<<"Node">>, TRUE))>>),
       EnumDefinitionV4(<<"Status">>, <<"ACTIVE", "INACTIVE">>),
       EnumDefinitionV4(<<"A">>, <<"X">>),
       TypeAliasDefinitionV4(<<"L">>, ArrayOf(Ref(<<"Missing">>, FALSE), FALSE)) >>

Constants ==
    << ConstantDefinitionV4("LIMIT", IntV(1), Prim("INT", FALSE)),
       ConstantDefinitionV4("LIMIT", StringV(<<"a">>), None),
       ConstantDefinitionV4("LIMIT", StringV(<<"a">>), Prim("INT", FALSE)) >>

TypeStrings ==
    << <<"[", "int", "]", "?">>, <<"A">> >>

\* The references get_resolved_type_fully is called on.
\* A reference that carries a constraint and a default of its own.
ConstrainedRef(name) ==
    [WithDefault(Ref(name, FALSE)) EXCEPT
        !.constraints = <<RangeConstraintV4(TRUE, 5, FALSE, 0, FALSE, FALSE)>>]

References ==
    << Ref(<<"A">>, FALSE), Ref(<<"B">>, TRUE), Ref(<<"User">>, FALSE),
       Ref(<<"Missing">>, FALSE), Prim("INT", FALSE), ConstrainedRef(<<"A">>) >>

ExpectedTypes ==
    << Prim("INT", FALSE), Prim("INT", TRUE), Prim("FLOAT", FALSE),
       Prim("STRING", FALSE), Prim("ANY", FALSE), Prim("NULL", FALSE),
       ArrayOf(Prim("STRING", FALSE), FALSE),
       StructRef(<<"User">>, FALSE), EnumRef(<<"Status">>, FALSE),
       Ref(<<"A">>, FALSE), Ref(<<"User">>, FALSE),
       MapOf(Prim("INT", FALSE), FALSE) >>

\* v wrapped n times in an ANY value.
RECURSIVE Wrapped(_, _)
Wrapped(v, n) == IF n = 0 THEN v ELSE AnyV(Wrapped(v, n - 1))

Values ==
    << NullV, IntV(1), FloatV(1), StringV(<<"a">>), BoolV,
       EnumV("ACTIVE"), EnumV("PENDING"),
       ArrayV(<<StringV(<<"a">>), IntV(1), StringV(<<"c">>)>>),
       ArrayV(<<StringV(<<"a">>)>>),
       StructV(<<Entry("id", IntV(1)), Entry("name", StringV(<<"A", "l">>))>>),
       StructV(<<Entry("id", IntV(1)), Entry("name", StringV(<<"A", "l">>)),
                 Entry("extra", IntV(1))>>),
       StructV(<<Entry("id", IntV(1))>>),
       AnyV(IntV(1)), AnyOpaque, DxdV, MathV,
       Wrapped(IntV(1), 2), Wrapped(IntV(1), 3) >>

\* The recursion_depth a caller passes: the default, and two depths near the
\* ceiling.
Depths == {0, MAX_RECURSION_DEPTH_V4 - 2, MAX_RECURSION_DEPTH_V4 + 1}

\* Registries built by add_definition calls, that a validator is made for.
Registries ==
    << <<Definitions[6], Definitions[8]>>,
       <<Definitions[4], Definitions[8]>>,
       <<Definitions[1], Definitions[2]>> >>

-----------------------------------------------------------------------------
(* The state machine: one schema, the calls made on it *)

\* The record of the last call: the method, its arguments (those it has), and
\* how it ended.
Call(op, outcome, type, val, text, strict, depth) ==
    [op |-> op, outcome |-> outcome, type |-> type, val |-> val, text |-> text,
     strict |-> strict, depth |-> depth]

Init ==
    /\ definitions = <<>>
    /\ constants = <<>>
    /\ cache = <<>>
    /\ validated = FALSE
    /\ validator = [built |-> FALSE, strict_fields |-> TRUE]
    /\ shared = FALSE
    /\ callers = <<>>
    /\ stack = <<>>
    /\ last = Call("SchemaV4", Returned, None, NullV, <<>>, TRUE, 0)

AddDefinition ==
    \E i \in 1..Len(Definitions) :
        LET r == add_definition(definitions, Definitions[i])
        IN  /\ Len(definitions) < MaxDefs
            /\ definitions' = r.definitions
            /\ last' = Call("add_definition", Propagated(r.err),
                            Definitions[i].target_type, NullV,
                            Definitions[i].name, TRUE, 0)
            /\ UNCHANGED <<constants, cache, validated, validator>>
            /\ shared' = FALSE
            /\ UNCHANGED <<callers, stack>>

AddConstant ==
    \E i \in 1..Len(Constants) :
        LET r == add_constant(constants, Constants[i])
        IN  /\ Len(constants) < MaxConsts
            /\ constants' = r.constants
            /\ last' = Call("add_constant", Propagated(r.err), None, NullV,
                            <<Constants[i].name>>, TRUE, 0)
            /\ UNCHANGED <<definitions, cache, validated, validator>>
            /\ shared' = FALSE
            /\ UNCHANGED <<callers, stack>>

ParseTypeString ==
    \E i \in 1..Len(TypeStrings) :
        LET r == parse_type_string(cache, TypeStrings[i])
        IN  /\ cache' = r.cache
            /\ last' = Call("parse_type_string", Propagated(r.err), r.type, NullV,
                            TypeStrings[i], TRUE, 0)
            /\ UNCHANGED <<definitions, constants, validated, validator>>
            /\ shared' = (r.err = OK /\ ~Cached(cache, TypeStrings[i]))
            /\ UNCHANGED <<callers, stack>>

ValidateSchemaIntegrity ==
    LET r == validate_schema_integrity(definitions, validated)
    IN  /\ validated' = r.validated
        /\ last' = Call("validate_schema_integrity", Propagated(r.err), None, NullV,
                        <<>>, TRUE, 0)
        /\ UNCHANGED <<definitions, constants, cache, validator>>
        /\ shared' = FALSE
        /\ UNCHANGED <<callers, stack>>

NewValidator ==
    \E strict \in BOOLEAN :
        LET r == validator_init(definitions, validated)
        IN  /\ validated' = r.validated
            /\ validator' = IF r.err = OK
                            THEN [built |-> TRUE, strict_fields |-> strict]
                            ELSE validator
            /\ last' = Call("DaxaValidatorV4", Propagated(r.err), None, NullV, <<>>,
                            strict, 0)
            /\ UNCHANGED <<definitions, constants, cache>>
            /\ shared' = FALSE
            /\ UNCHANGED <<callers, stack>>

GetResolvedTypeFully ==
    \E i \in 1..Len(References) :
        LET r == get_resolved_type_fully(definitions, References[i], RecursionLimit)
        IN  /\ last' = Call("get_resolved_type_fully", Propagated(r.err),
                            References[i], NullV, <<>>, TRUE, 0)
            /\ UNCHANGED <<definitions, constants, cache, validated, validator>>
            /\ shared' = FALSE
            /\ UNCHANGED <<callers, stack>>

ValidateValue ==
    \E i \in 1..Len(Values), j \in 1..Len(ExpectedTypes),
       depth \in Depths :
        LET r == validate_value(definitions, validator.strict_fields, Values[i],
                                ExpectedTypes[j], <<>>, depth)
        IN  /\ validator.built
            /\ last' = Call("validate_value", r, ExpectedTypes[j], Values[i], <<>>,
                            validator.strict_fields, depth)
            /\ UNCHANGED <<definitions, constants, cache, validated, validator>>
            /\ shared' = FALSE
            /\ UNCHANGED <<callers, stack>>

\* The registry: definitions and constants are added, type strings parsed,
\* references resolved, the integrity checked and validators constructed.
Next ==
    \/ AddDefinition
    \/ AddConstant
    \/ ParseTypeString
    \/ ValidateSchemaIntegrity
    \/ NewValidator
    \/ GetResolvedTypeFully

Spec == Init /\ [][Next]_vars

\* The validator: on a registry that add_definition calls have built, a
\* validator is constructed and values are validated.
InitValidate ==
    /\ \E i \in 1..Len(Registries) : definitions = Registries[i]
    /\ constants = <<>>
    /\ cache = <<>>
    /\ validated = FALSE
    /\ validator = [built |-> FALSE, strict_fields |-> TRUE]
    /\ shared = FALSE
    /\ callers = <<>>
    /\ stack = <<>>
    /\ last = Call("add_definition", Returned, None, NullV, <<>>, TRUE, 0)

NextValidate ==
    \/ NewValidator
    \/ ValidateValue

SpecValidate == InitValidate /\ [][NextValidate]_vars

-----------------------------------------------------------------------------
(* schema.py: DaxaTypeV4.to_string, and the parser's specification *)

\* Entries the parse cache may hold.
MaxCache == 2

DaxaParsingError == "DaxaParsingError"

\* ConstraintV4.to_daxa_attribute_str: the attribute text the constraint was
\* built from, one token for each class of constraint.
to_daxa_attribute_str(c) ==
    IF c.cls = "LengthConstraintV4" THEN "@length"
    ELSE IF c.cls = "RangeConstraintV4" THEN "@range"
    ELSE "@pattern"

\* " ".join(...) over the constraints from the i-th on.
RECURSIVE join_attributes(_, _)
join_attributes(cs, i) ==
    IF i > Len(cs) THEN <<>>
    ELSE IF i = Len(cs) THEN <<to_daxa_attribute_str(cs[i])>>
    ELSE <<to_daxa_attribute_str(cs[i]), " ">> \o join_attributes(cs, i + 1)

\* str.strip(): the white space at both ends is dropped.
RECURSIVE strip(_)
strip(text) ==
    IF text # <<>> /\ Head(text) = " " THEN strip(Tail(text))
    ELSE IF text # <<>> /\ text[Len(text)] = " "
    THEN strip(SubSeq(text, 1, Len(text) - 1))
    ELSE text

RECURSIVE to_string(_, _, _)

\* to_string without its opt_part: the ? of an optional type is not written.
to_string_without_opt_part(self, short, include_attributes) ==
    LET attr_part == IF include_attributes /\ self.constraints # <<>>
                     THEN <<" ">> \o join_attributes(self.constraints, 1)
                     ELSE <<>>
        el_str == IF self.element_type # None
                  THEN to_string(self.element_type, TRUE, FALSE)
                  ELSE <<"any">>
        name_part == IF self.type_enum_kind = "ARRAY"
                     THEN <<"[">> \o el_str \o <<"]">>
                     ELSE IF Falsy(self.name) THEN EnumValue(self.type_enum_kind)
                     ELSE self.name
    IN  strip(name_part \o attr_part)

\* DaxaTypeV4.to_string(short, include_attributes), as a text.
to_string(self, short, include_attributes) ==
    LET name_part0 == IF Falsy(self.name) THEN EnumValue(self.type_enum_kind)
                      ELSE self.name
        opt_part == IF self.is_optional THEN <<"?">> ELSE <<>>
        attr_part == IF include_attributes /\ self.constraints # <<>>
                     THEN <<" ">> \o join_attributes(self.constraints, 1)
                     ELSE <<>>
        el_str == IF self.element_type # None
                  THEN to_string(self.element_type, TRUE, FALSE)
                  ELSE <<"any">>
        name_part == IF self.type_enum_kind = "ARRAY"
                     THEN IF self.syntax_flavor = <<"shorthand_array">> \/ short
                          THEN <<"[">> \o el_str \o <<"]">>
                          ELSE <<"array", "<">> \o el_str \o <<">">>
                     ELSE name_part0
    IN  strip(name_part \o opt_part \o attr_part)

\* The type strings parse_type_string is called with: primitives, named
\* references, arrays, a map, optional forms, strings outside the grammar and
\* a string with white space.
ParseInputs ==
    << <<"int">>, <<"int", "?">>, <<"[", "int", "]">>,
       <<"[", "int", "?", "]", "?">>, <<"User">>, <<"Status">>, <<"A">>,
       <<"map", "[", "string", ",", "int", "]">>, <<"integer">>,
       <<>>, <<"[", "]">>, <<"[", "int">>, <<"int", "?", "?">>, <<"9x">>,
       <<"[", " ", "int", " ", "]">> >>

\* The registry the type strings are parsed on: a struct, an enum and an alias.
ParseRegistry == <<Definitions[6], Definitions[8], Definitions[4]>>

InitParse ==
    /\ definitions = ParseRegistry
    /\ constants = <<>>
    /\ cache = <<>>
    /\ validated = FALSE
    /\ validator = [built |-> FALSE, strict_fields |-> TRUE]
    /\ shared = FALSE
    /\ callers = <<>>
    /\ stack = <<>>
    /\ last = Call("add_definition", Returned, None, NullV, <<>>, TRUE, 0)

\* schema.parse_type_string(type_str) for any of the strings.
ParseAnyTypeString ==
    \E i \in 1..Len(ParseInputs) :
        LET r == parse_type_string(cache, ParseInputs[i])
        IN  /\ Len(r.cache) <= MaxCache
            /\ cache' = r.cache
            /\ last' = Call("parse_type_string", Propagated(r.err), r.type, NullV,
                            ParseInputs[i], TRUE, 0)
            /\ shared' = (r.err = OK /\ ~Cached(cache, ParseInputs[i]))
            /\ UNCHANGED <<callers, stack>>
            /\ UNCHANGED <<definitions, constants, validated, validator>>

\* The caller writes to the type it was returned: t._is_optional = True. The
\* object is a slot object without any guard on assignment; when it is the
\* object the cache holds, the cache entry is written with it.
SetIsOptional ==
    LET changed == [last.type EXCEPT !.is_optional = TRUE]
    IN  /\ last.op = "parse_type_string"
        /\ last.outcome.err = OK
        /\ ~last.type.is_optional
        /\ cache' = IF shared THEN CachePut(cache, last.text, changed) ELSE cache
        /\ last' = Call("set_is_optional", Returned, changed, NullV, last.text,
                        TRUE, 0)
        /\ UNCHANGED <<definitions, constants, validated, validator, shared>>
        /\ UNCHANGED <<callers, stack>>

\* t.to_string() on the type the last parse_type_string call returned.
TypeToString ==
    /\ last.op = "parse_type_string"
    /\ last.outcome.err = OK
    /\ last' = Call("to_string", Returned, last.type, NullV,
                    to_string(last.type, TRUE, TRUE), TRUE, 0)
    /\ shared' = FALSE
    /\ UNCHANGED <<callers, stack>>
    /\ UNCHANGED <<definitions, constants, cache, validated, validator>>

NextParse ==
    \/ ParseAnyTypeString
    \/ SetIsOptional
    \/ TypeToString

SpecParse == InitParse /\ [][NextParse]_vars

-----------------------------------------------------------------------------
(* schema.py: the constraints, constructed and applied *)

\* The bounds a Length constraint is constructed with, and those of a Range.
LengthBounds == -1..2
RangeBounds == {5, 10}
Patterns == { <<"a">>, <<"a", "b">> }

\* The values constraints are applied to. Step 2 of validate_value has
\* returned or raised for a Null value before the constraints are reached.
ConstraintValues ==
    << IntV(5), IntV(9), IntV(10), FloatV(10), BoolV,
       StringV(<<>>), StringV(<<"a">>), StringV(<<"a", "b">>),
       BytesV(<<"a">>), BytesV(<<"a", "b", "c">>),
       ArrayV(<<>>), ArrayV(<<IntV(9), IntV(9)>>),
       EnumV("ACTIVE"), StructV(<<Entry("id", IntV(1))>>), AnyOpaque >>

\* A type that carries the one constraint c.
Attributed(c) == [Prim("ANY", FALSE) EXCEPT !.constraints = <<c>>]

InitConstraints ==
    /\ definitions = <<>>
    /\ constants = <<>>
    /\ cache = <<>>
    /\ validated = FALSE
    /\ validator = [built |-> FALSE, strict_fields |-> TRUE]
    /\ shared = FALSE
    /\ callers = <<>>
    /\ stack = <<>>
    /\ last = Call("SchemaV4", Returned, None, NullV, <<>>, TRUE, 0)

\* LengthConstraintV4(sa, min_l, max_l): last.type carries the constraint asked
\* for, and the outcome tells whether it was constructed.
NewLengthConstraint ==
    \E has_min \in BOOLEAN, has_max \in BOOLEAN,
       min_l \in LengthBounds, max_l \in LengthBounds :
        /\ last' = Call("LengthConstraintV4",
                        Propagated(LengthConstraintInit(has_min, min_l, has_max, max_l)),
                        Attributed(LengthConstraintV4(has_min, min_l, has_max, max_l)),
                        NullV, <<>>, TRUE, 0)
        /\ UNCHANGED <<definitions, constants, cache, validated, validator, shared>>
        /\ UNCHANGED <<callers, stack>>

\* RangeConstraintV4(sa, min_v, max_v, excl_min, excl_max): no check is made.
NewRangeConstraint ==
    \E has_min \in BOOLEAN, has_max \in BOOLEAN,
       min_v \in RangeBounds, max_v \in RangeBounds,
       excl_min \in BOOLEAN, excl_max \in BOOLEAN :
        /\ last' = Call("RangeConstraintV4", Returned,
                        Attributed(RangeConstraintV4(has_min, min_v, has_max, max_v,
                                                     excl_min, excl_max)),
                        NullV, <<>>, TRUE, 0)
        /\ UNCHANGED <<definitions, constants, cache, validated, validator, shared>>
        /\ UNCHANGED <<callers, stack>>

\* RegexConstraintV4(sa, pattern_str) for a pattern that compiles.
NewRegexConstraint ==
    \E pattern \in Patterns :
        /\ last' = Call("RegexConstraintV4", Returned,
                        Attributed(RegexConstraintV4(pattern)), NullV, <<>>, TRUE, 0)
        /\ UNCHANGED <<definitions, constants, cache, validated, validator, shared>>
        /\ UNCHANGED <<callers, stack>>

\* Step 4 of validate_value on a type whose constraint was constructed:
\* constraint.validate(daxa_val.value, daxa_val.daxa_type_enum, ...) for each
\* constraint of the type.
ApplyConstraints ==
    \E i \in 1..Len(ConstraintValues) :
        /\ last.op \in {"LengthConstraintV4", "RangeConstraintV4",
                        "RegexConstraintV4", "constraint.validate"}
        /\ last.op = "constraint.validate" \/ last.outcome.err = OK
        /\ last' = Call("constraint.validate",
                        Propagated(first_constraint_failure(
                                       last.type.constraints, 1, ConstraintValues[i],
                                       ConstraintValues[i].kind)),
                        last.type, ConstraintValues[i], <<>>, TRUE, 0)
        /\ UNCHANGED <<definitions, constants, cache, validated, validator, shared>>
        /\ UNCHANGED <<callers, stack>>

NextConstraints ==
    \/ NewLengthConstraint
    \/ NewRangeConstraint
    \/ NewRegexConstraint
    \/ ApplyConstraints

SpecConstraints == InitConstraints /\ [][NextConstraints]_vars

-----------------------------------------------------------------------------
(* Two threads on one schema: parse_type_string and validate_value, step by step *)

Callers == {1, 2}

\* The type string both callers parse, and the values they validate.
ConcurrentStrings == { <<"int", "?">>, <<"[", "int", "]", "?">>, <<"A">> }
ConcurrentValues == { NullV, IntV(1), ArrayV(<<IntV(1)>>) }

\* The registries of the model that pass validate_schema_integrity.
ConfirmedRegistries ==
    { Registries[i] : i \in { k \in 1..Len(Registries) :
          validate_schema_integrity(Registries[k], FALSE).err = OK } }

\* base_type_str[1:-1] when the string has the form [ ... ] or [ ... ]?, and
\* <<>> for a string of another form.
ElementString(type_str) ==
    LET is_optional == Len(type_str) > 0 /\ type_str[Len(type_str)] = "?"
        base_type_str == IF is_optional THEN SubSeq(type_str, 1, Len(type_str) - 1)
                         ELSE type_str
        n == Len(base_type_str)
    IN  IF n >= 2 /\ base_type_str[1] = "[" /\ base_type_str[n] = "]"
        THEN SubSeq(base_type_str, 2, n - 1)
        ELSE <<>>
IsArrayString(type_str) ==
    LET is_optional == Len(type_str) > 0 /\ type_str[Len(type_str)] = "?"
        base_type_str == IF is_optional THEN SubSeq(type_str, 1, Len(type_str) - 1)
                         ELSE type_str
        n == Len(base_type_str)
    IN  n >= 2 /\ base_type_str[1] = "[" /\ base_type_str[n] = "]"

\* The type lines 326 to 347 of parse_type_string build for type_str after a
\* cache miss, el being the type the recursive call returned for the element
\* string (None when there was no recursive call).
BuiltType(type_str, el) ==
    IF el = None
    THEN parse_type_string(<<>>, type_str).type
    ELSE parse_type_string(<<[key |-> ElementString(type_str), type |-> el]>>,
                           type_str).type

\* A caller: pc is its position, strs the type strings of its parse_type_string
\* calls in progress (the innermost last), el the type its recursive call
\* returned, ret the type its outermost call returned, missed whether that
\* call missed the cache, val the value it validates against ret, outcome how
\* its validate_value call ended.
Caller(type_str, val) ==
    [pc |-> "lookup", type_str |-> type_str, strs |-> <<type_str>>, el |-> None,
     ret |-> None, missed |-> FALSE, val |-> val, outcome |-> Returned]

InitConcurrent ==
    /\ definitions \in ConfirmedRegistries
    /\ constants = <<>>
    /\ cache \in {<<>>, parse_type_string(<<>>, <<"int">>).cache}
    /\ validated = TRUE
    /\ validator = [built |-> TRUE, strict_fields |-> TRUE]
    /\ shared = FALSE
    /\ \E s \in ConcurrentStrings :
          callers \in [Callers -> {Caller(s, v) : v \in ConcurrentValues}]
    /\ stack = <<>>
    /\ last = Call("DaxaValidatorV4", Returned, None, NullV, <<>>, TRUE, 0)

\* The innermost parse_type_string call of caller c returns dt: to the outer
\* call, which goes on to build its array type, or to the caller.
Deliver(c, dt) ==
    IF Len(callers[c].strs) > 1
    THEN [callers EXCEPT ![c].strs = SubSeq(@, 1, Len(@) - 1),
                         ![c].el = dt,
                         ![c].pc = "store"]
    ELSE [callers EXCEPT ![c].strs = <<>>,
                         ![c].ret = dt,
                         ![c].pc = "validate"]

\* schema.py:324, and 334-336 for a miss on an array string: the cache is read.
\* A hit returns a copy of the entry; a miss on [T] calls parse_type_string on
\* T; any other miss goes on to build the type.
CallerLooksUp(c) ==
    LET s == callers[c].strs[Len(callers[c].strs)]
    IN  /\ callers[c].pc = "lookup"
        /\ callers' =
              IF Cached(cache, s)
              THEN Deliver(c, copy(CacheEntry(cache, s)))
              ELSE IF IsArrayString(s)
              THEN [callers EXCEPT ![c].strs = Append(@, ElementString(s)),
                                   ![c].missed = @ \/ Len(callers[c].strs) = 1]
              ELSE [callers EXCEPT ![c].pc = "store",
                                   ![c].missed = @ \/ Len(callers[c].strs) = 1]
        /\ UNCHANGED <<definitions, constants, cache, validated, validator, last,
                       shared, stack>>

\* schema.py:326-351 after the miss: the type is built, stored in the cache
\* and returned.
CallerStores(c) ==
    LET s == callers[c].strs[Len(callers[c].strs)]
        dt == BuiltType(s, callers[c].el)
    IN  /\ callers[c].pc = "store"
        /\ cache' = CachePut(cache, s, dt)
        /\ callers' = Deliver(c, dt)
        /\ UNCHANGED <<definitions, constants, validated, validator, last, shared,
                       stack>>

\* A validate_value that marks the expected type it is given as resolved, in
\* place.
CallerValidatesInPlace(c) ==
    /\ callers[c].pc = "validate"
    /\ callers' = [callers EXCEPT
                      ![c].pc = "done",
                      ![c].ret = [@ EXCEPT !.is_resolved_structurally = TRUE],
                      ![c].outcome =
                          validate_value(definitions, validator.strict_fields,
                                         callers[c].val, callers[c].ret, <<>>, 0)]
    /\ last' = Call("validate_value", callers'[c].outcome, callers[c].ret,
                    callers[c].val, callers[c].type_str, validator.strict_fields, 0)
    /\ UNCHANGED <<definitions, constants, cache, validated, validator, shared,
                   stack>>

\* validator.validate_value(val, ret): the call assigns to nothing but its
\* local variables.
CallerValidates(c) ==
    /\ callers[c].pc = "validate"
    /\ callers' = [callers EXCEPT
                      ![c].pc = "done",
                      ![c].outcome =
                          validate_value(definitions, validator.strict_fields,
                                         callers[c].val, callers[c].ret, <<>>, 0)]
    /\ last' = Call("validate_value", callers'[c].outcome, callers[c].ret,
                    callers[c].val, callers[c].type_str, validator.strict_fields, 0)
    /\ UNCHANGED <<definitions, constants, cache, validated, validator, shared,
                   stack>>

NextConcurrent ==
    \E c \in Callers :
        \/ CallerLooksUp(c)
        \/ CallerStores(c)
        \/ CallerValidates(c)

SpecConcurrent == InitConcurrent /\ [][NextConcurrent]_vars

-----------------------------------------------------------------------------
(* validator.py: one validate_value call, frame by frame *)

\* What a frame of validate_value still has to do, in the order of the code:
\* a recursive call of validate_value, or a raise.
CallItem(v, t, path) ==
    [kind |-> "call", val |-> v, type |-> t, path |-> path, outcome |-> Returned]
RaiseItem(outcome) ==
    [kind |-> "raise", val |-> NullV, type |-> None, path |-> <<>>,
     outcome |-> outcome]

\* Lines 176-184: the declared fields in order, a call for a present field
\* and the check of an absent one.
RECURSIVE field_items(_, _, _, _, _)
field_items(defs, entries, fields, j, path_context) ==
    IF j > Len(fields) THEN <<>>
    ELSE LET field_def == fields[j]
             rt == get_resolved_type_fully(defs, field_def.daxa_type, RecursionLimit)
             here ==
               IF HasKey(entries, field_def.name)
               THEN <<CallItem(Lookup(entries, field_def.name), field_def.daxa_type,
                               path_context \o <<field_def.name>>)>>
               ELSE IF rt.err # OK THEN <<RaiseItem(Propagated(rt.err))>>
               ELSE IF ~rt.type.is_optional /\ rt.type.default_value_native = None
               THEN <<RaiseItem(Raised(DaxaValidationError,
                                       current_path_str(path_context),
                                       "required field missing", field_def.name, "",
                                       <<>>))>>
               ELSE <<>>
         IN  here \o field_items(defs, entries, fields, j + 1, path_context)

\* Step 5 of validate_value (lines 147-205) as the calls and raises it makes.
structure_items(defs, strict, daxa_val, resolved, path_context) ==
    IF daxa_val.kind = "ARRAY"
    THEN IF resolved.element_type = None
         THEN <<RaiseItem(Propagated(DaxaInternalError))>>
         ELSE [i \in 1..Len(daxa_val.items) |->
                  CallItem(daxa_val.items[i], resolved.element_type,
                           path_context \o <<str(i - 1)>>)]
    ELSE IF daxa_val.kind = "STRUCT_INSTANCE"
    THEN IF resolved.type_enum_kind = "MAP"
         THEN IF resolved.value_type = None
              THEN <<RaiseItem(Propagated(DaxaInternalError))>>
              ELSE [i \in 1..Len(daxa_val.entries) |->
                       CallItem(daxa_val.entries[i].value, resolved.value_type,
                                path_context \o <<daxa_val.entries[i].key>>)]
         ELSE IF resolved.type_enum_kind = "SCHEMA_STRUCT_DEF"
         THEN IF Falsy(resolved.name)
              THEN <<RaiseItem(Propagated(DaxaInternalError))>>
              ELSE LET struct_def == get_definition(defs, resolved.name,
                                                    "StructDefinitionV4")
                   IN  IF struct_def = None
                       THEN <<RaiseItem(Propagated(DaxaSchemaError))>>
                       ELSE LET extra == extraneous_key(daxa_val.entries,
                                                        struct_def.fields)
                            IN  field_items(defs, daxa_val.entries,
                                            struct_def.fields, 1, path_context)
                                \o (IF strict /\ extra # <<>>
                                    THEN <<RaiseItem(Raised(
                                             DaxaValidationError,
                                             current_path_str(path_context),
                                             "extraneous field", extra[1], "",
                                             <<>>))>>
                                    ELSE <<>>)
         ELSE <<>>
    ELSE IF daxa_val.kind = "ENUM_INSTANCE"
    THEN LET r == validate_enum_member(defs, daxa_val, resolved, path_context)
         IN  IF r.err # OK THEN <<RaiseItem(r)>> ELSE <<>>
    ELSE <<>>

\* Steps 2 to 5 of validate_value as the calls and raises they make.
resolved_items(defs, strict, daxa_val, resolved, path_context) ==
    IF daxa_val.kind = "NULL"
    THEN IF resolved.is_optional
         THEN <<>>
         ELSE <<RaiseItem(Raised(DaxaValidationError,
                                 current_path_str(path_context), "not optional",
                                 "", "", <<>>))>>
    ELSE
    LET expected_instance_enum == get_instance_type_enum(defs, resolved)
        value_instance_enum == daxa_val.kind
        kind_items ==
            IF expected_instance_enum.kind = "ANY" THEN <<>>
            ELSE IF value_instance_enum = "ANY"
            THEN IF daxa_val.inner # <<>>
                 THEN <<CallItem(daxa_val.inner[1], resolved, path_context)>>
                 ELSE <<RaiseItem(Raised(DaxaTypeError,
                                         current_path_str(path_context),
                                         "opaque any", expected_instance_enum.kind,
                                         "ANY", <<>>))>>
            ELSE IF expected_instance_enum.kind = "FLOAT" /\ value_instance_enum = "INT"
            THEN <<>>
            ELSE IF value_instance_enum # expected_instance_enum.kind
            THEN <<RaiseItem(Raised(DaxaTypeError, current_path_str(path_context),
                                    "type mismatch", expected_instance_enum.kind,
                                    value_instance_enum, <<>>))>>
            ELSE <<>>
        constraint_items ==
            IF first_constraint_failure(resolved.constraints, 1, daxa_val,
                                        value_instance_enum) # OK
            THEN <<RaiseItem(Raised(DaxaValidationError,
                                    current_path_str(path_context),
                                    "constraint failed", "", "", <<>>))>>
            ELSE <<>>
    IN  IF expected_instance_enum.err # OK
        THEN <<RaiseItem(Propagated(expected_instance_enum.err))>>
        ELSE kind_items \o constraint_items
             \o structure_items(defs, strict, daxa_val, resolved, path_context)

\* The body of validate_value for one frame: the sequence of recursive calls
\* and raises it makes, in order; the frame returns normally when the
\* sequence is used up, and a raise ends it.
program(defs, strict, daxa_val, expected_daxa_type, path_context, depth) ==
    IF depth > MAX_RECURSION_DEPTH_V4
    THEN <<RaiseItem(Raised(DaxaValidationError, path_context,
                            "max recursion depth", "", "", <<>>))>>
    ELSE
    LET type_to_validate_against ==
            clone_with_changes(expected_daxa_type, { <<"schema_context">> },
                               [expected_daxa_type EXCEPT !.schema_context = TRUE])
        resolved_expected_type ==
            get_resolved_type_fully(defs, type_to_validate_against.type,
                                    RecursionLimit)
    IN  IF type_to_validate_against.err # OK
        THEN <<RaiseItem(Propagated(type_to_validate_against.err))>>
        ELSE IF resolved_expected_type.err = DaxaSchemaError
        THEN <<RaiseItem(Raised(DaxaValidationError,
                                current_path_str(path_context),
                                "invalid expected type", "", "", <<>>))>>
        ELSE IF resolved_expected_type.err # OK
        THEN <<RaiseItem(Propagated(resolved_expected_type.err))>>
        ELSE resolved_items(defs, strict, daxa_val, resolved_expected_type.type,
                            path_context)

\* A frame: the arguments of the call, what it has to do, and the item it is at.
Frame(defs, strict, daxa_val, expected_daxa_type, path_context, depth) ==
    [val |-> daxa_val, type |-> expected_daxa_type, path |-> path_context,
     depth |-> depth,
     items |-> program(defs, strict, daxa_val, expected_daxa_type, path_context,
                       depth),
     next |-> 1]

\* The outcome of a call that has not ended.
Running == Raised("running", <<>>, "", "", "", <<>>)

\* A frame that runs again from its start when an exception reaches it.
propagate_retrying(frames) == frames

\* The recursive calls of lines 104, 154, 165 and 179 stand in no try block:
\* an exception leaves every frame of the call.
propagate(frames) == <<>>

\* A struct that refers to itself, and an instance of it two levels deep.
NodeDefinition ==
    StructDefinitionV4(<<"Node">>, <<FieldV4("next", StructRef(<<"Node">>, TRUE))>>)
NodeInstance ==
    StructV(<<Entry("next", StructV(<<Entry("next", NullV)>>))>>)

\* The registries without alias cycles a validator can be constructed for.
CallRegistries ==
    { r \in ConfirmedRegistries \cup { <<NodeDefinition>> } :
          validator_init(r, FALSE).err = OK }
CallValues == Values \o <<NodeInstance>>
CallTypes == ExpectedTypes \o <<StructRef(<<"Node">>, FALSE)>>

InitCall ==
    /\ definitions \in CallRegistries
    /\ constants = <<>>
    /\ cache = <<>>
    /\ validated = TRUE
    /\ \E strict \in BOOLEAN : validator = [built |-> TRUE, strict_fields |-> strict]
    /\ shared = FALSE
    /\ callers = <<>>
    /\ stack = <<>>
    /\ last = Call("DaxaValidatorV4", Returned, None, NullV, <<>>, TRUE, 0)

\* validator.validate_value(daxa_val, expected_daxa_type, recursion_depth=depth)
\* is called on the constructed validator: its first frame is entered. One
\* call is followed to its end; validate_value keeps nothing from call to call.
CallValidateValue ==
    \E i \in 1..Len(CallValues), j \in 1..Len(CallTypes), depth \in Depths :
        /\ stack = <<>>
        /\ last.op = "DaxaValidatorV4"
        /\ stack' = <<Frame(definitions, validator.strict_fields, CallValues[i],
                            CallTypes[j], <<>>, depth)>>
        /\ last' = Call("validate_value", Running, CallTypes[j], CallValues[i],
                        <<>>, validator.strict_fields, depth)
        /\ UNCHANGED <<definitions, constants, cache, validated, validator, shared,
                       callers>>

\* The innermost frame goes on: it returns when nothing is left to do, it
\* raises, or it makes its next recursive call one level deeper.
StepValidateValue ==
    /\ stack # <<>>
    /\ LET top == stack[Len(stack)]
       IN  IF top.next > Len(top.items)
           THEN /\ stack' = SubSeq(stack, 1, Len(stack) - 1)
                /\ last' = IF Len(stack) = 1
                           THEN [last EXCEPT !.outcome = Returned]
                           ELSE last
           ELSE IF top.items[top.next].kind = "raise"
           THEN /\ stack' = propagate(stack)
                /\ last' = [last EXCEPT !.outcome = top.items[top.next].outcome]
           ELSE /\ stack' = Append([stack EXCEPT ![Len(stack)].next = @ + 1],
                                   Frame(definitions, validator.strict_fields,
                                         top.items[top.next].val,
                                         top.items[top.next].type,
                                         top.items[top.next].path, top.depth + 1))
                /\ last' = last
    /\ UNCHANGED <<definitions, constants, cache, validated, validator, shared,
                   callers>>

NextCall ==
    \/ CallValidateValue
    \/ StepValidateValue

\* A call that has started goes on running: the interpreter executes the
\* innermost frame until the call has ended.
SpecCall == InitCall /\ [][NextCall]_vars /\ WF_vars(StepValidateValue)

-----------------------------------------------------------------------------
(* The claims *)

\* Following alias targets from `name` for n steps never leaves the aliases:
\* with n above the number of definitions, the chain from `name` runs into a
\* cycle.
RECURSIVE StaysInAliases(_, _, _)
StaysInAliases(defs, name, n) ==
    IF n = 0 THEN TRUE
    ELSE LET d == get_definition(defs, name, "")
         IN  /\ d # None
             /\ d.cls = "TypeAliasDefinitionV4"
             /\ d.target_type.type_enum_kind = "SCHEMA_ALIAS_DEF"
             /\ StaysInAliases(defs, d.target_type.name, n - 1)

OnAliasCycle(defs, name) == StaysInAliases(defs, name, Len(defs) + 1)

\* C1: resolving an alias reference that lies on a cycle of alias
\* definitions (A = B, B = A, or A = A) with get_resolved_type_fully ends with
\* DaxaSchemaError.
C1_CyclicAliasFailsWithSchemaError ==
    ( /\ last.op = "get_resolved_type_fully"
      /\ last.type.type_enum_kind = "SCHEMA_ALIAS_DEF"
      /\ OnAliasCycle(definitions, last.type.name) )
    => last.outcome.err = DaxaSchemaError

\* The last call validated, from the root and at depth 0, an instance of
\* struct User whose present fields conform to their types.
UserInstanceValidated ==
    /\ last.op = "validate_value"
    /\ last.depth = 0
    /\ last.type = StructRef(<<"User">>, FALSE)
    /\ get_definition(definitions, <<"User">>, "StructDefinitionV4") # None
    /\ last.val.kind = "STRUCT_INSTANCE"
    /\ \A i \in 1..Len(last.val.entries) :
          /\ last.val.entries[i].key = "id" => last.val.entries[i].value.kind = "INT"
          /\ last.val.entries[i].key = "name"
                => last.val.entries[i].value.kind = "STRING"

\* A declared field of User that the instance lacks and that is neither
\* optional nor defaulted.
RequiredFieldAbsent(entries) ==
    \E j \in 1..Len(UserFields) :
        /\ ~HasKey(entries, UserFields[j].name)
        /\ ~UserFields[j].daxa_type.is_optional
        /\ UserFields[j].daxa_type.default_value_native = None

\* C2: validating a struct instance, a declared field that is absent makes
\* validate_value fail with DaxaValidationError (required field missing) when
\* its type is not optional and has no default, and an absent field that is
\* optional or has a default causes no failure.
C2_AbsentFieldRule ==
    (UserInstanceValidated /\ extraneous_key(last.val.entries, UserFields) = <<>>)
    => IF RequiredFieldAbsent(last.val.entries)
       THEN /\ last.outcome.err = DaxaValidationError
            /\ last.outcome.msg = "required field missing"
       ELSE last.outcome.err = OK

\* C3: an otherwise valid struct instance with a key its struct does not
\* declare fails with DaxaValidationError (extraneous field) under a validator
\* with strict field checking, and is accepted when that checking is off.
C3_StrictFieldRule ==
    ( /\ UserInstanceValidated
      /\ ~RequiredFieldAbsent(last.val.entries)
      /\ extraneous_key(last.val.entries, UserFields) # <<>> )
    => IF last.strict
       THEN /\ last.outcome.err = DaxaValidationError
            /\ last.outcome.msg = "extraneous field"
       ELSE last.outcome.err = OK

\* The last call validated a value at a depth within the ceiling against a
\* type that resolves; ResolvedOfLast is that resolved type.
ResolvedOfLast ==
    get_resolved_type_fully(definitions, last.type, RecursionLimit)
ValidatedWithinCeiling ==
    /\ last.op = "validate_value"
    /\ last.depth <= MAX_RECURSION_DEPTH_V4
    /\ last.type.type_enum_kind # "SCHEMA_ALIAS_DEF"

\* C4: on a Null value validate_value succeeds exactly when the resolved
\* expected type is optional, and fails with DaxaValidationError when it is not.
C4_NullIffOptional ==
    (ValidatedWithinCeiling /\ last.val.kind = "NULL")
    => /\ (last.outcome.err = OK) <=> ResolvedOfLast.type.is_optional
       /\ ~ResolvedOfLast.type.is_optional
             => last.outcome.err = DaxaValidationError

\* C5: for a value that is neither Null nor Any and an expected primitive type
\* other than Any, the kind check raises DaxaTypeError exactly when the value's
\* kind differs from the expected kind and the pair is not an Int value for an
\* expected Float.
C5_KindCheck ==
    ( /\ ValidatedWithinCeiling
      /\ last.val.kind \notin {"NULL", "ANY"}
      /\ last.type.type_enum_kind \in {"INT", "FLOAT", "STRING"} )
    => LET passes == \/ last.val.kind = last.type.type_enum_kind
                     \/ (last.val.kind = "INT" /\ last.type.type_enum_kind = "FLOAT")
       IN  IF passes THEN last.outcome.err = OK
           ELSE last.outcome.err = DaxaTypeError

\* C6: against an expected type of kind Any without constraints,
\* validate_value accepts every value that is not Null.
C6_AnyAcceptsEverything ==
    ( /\ ValidatedWithinCeiling
      /\ last.type.type_enum_kind = "ANY"
      /\ last.type.constraints = <<>>
      /\ last.val.kind # "NULL"
      /\ last.depth = 0 )
    => last.outcome.err = OK

\* C7: validating ["a", 1, "c"] against [string] from the root fails with a
\* kind mismatch (expected STRING, got INT) reported at the path <root>.1.
C7_ElementPathFromRoot ==
    ( /\ last.op = "validate_value"
      /\ last.depth = 0
      /\ last.type = ArrayOf(Prim("STRING", FALSE), FALSE)
      /\ last.val = ArrayV(<<StringV(<<"a">>), IntV(1), StringV(<<"c">>)>>) )
    => /\ last.outcome.err = DaxaTypeError
       /\ last.outcome.expected = "STRING"
       /\ last.outcome.got = "INT"
       /\ last.outcome.path = <<"<root>", "1">>

\* C8: against a reference to the registered enum Status, an enum instance is
\* accepted exactly when it names a declared member, and a non-member fails
\* with DaxaValidationError listing the members in declaration order.
C8_EnumMembership ==
    ( /\ last.op = "validate_value"
      /\ last.depth = 0
      /\ last.type = EnumRef(<<"Status">>, FALSE)
      /\ get_definition(definitions, <<"Status">>, "EnumDefinitionV4") # None
      /\ last.val.kind = "ENUM_INSTANCE" )
    => IF last.val.text[1] \in {"ACTIVE", "INACTIVE"}
       THEN last.outcome.err = OK
       ELSE /\ last.outcome.err = DaxaValidationError
            /\ last.outcome.allowed = <<"ACTIVE", "INACTIVE">>

\* ANY wrappers around the innermost value: each costs one level of recursion.
RECURSIVE Nesting(_)
Nesting(v) == IF v.kind = "ANY" /\ v.inner # <<>> THEN 1 + Nesting(v.inner[1]) ELSE 0

\* C9: a value whose nesting takes the recursion past the ceiling makes
\* validate_value fail with DaxaValidationError (max recursion depth), and one
\* whose nesting stays within the ceiling does not fail for its depth.
C9_DepthCeiling ==
    ( /\ last.op = "validate_value"
      /\ last.type = Prim("INT", FALSE)
      /\ last.val.kind = "ANY" )
    => IF last.depth + Nesting(last.val) > MAX_RECURSION_DEPTH_V4
       THEN /\ last.outcome.err = DaxaValidationError
            /\ last.outcome.msg = "max recursion depth"
       ELSE last.outcome.msg # "max recursion depth"

\* C10: once the integrity flag is set, a call of validate_schema_integrity
\* returns normally and leaves the definitions, the constants, the parse cache
\* and the flag as they were.
C10_IntegrityIdempotent ==
    [][ (validated /\ last'.op = "validate_schema_integrity")
        => /\ last'.outcome.err = OK
           /\ UNCHANGED <<definitions, constants, cache, validated>> ]_vars

\* C10, witness: a call made with the flag set returned normally on a registry
\* that the pass over the definitions would no longer accept, so the pass was
\* not made again.
C10_RepeatCallSkipsThePass ==
    /\ validated
    /\ last.op = "validate_schema_integrity"
    /\ last.outcome.err = OK
    /\ check_definitions(definitions, 1) # OK

\* A named reference inside the type t, at any depth (t itself, the element
\* type of an array, the value type of a map), that names no definition of
\* the schema or lies on a cycle of aliases.
RECURSIVE HasUnresolvableRef(_, _)
HasUnresolvableRef(defs, t) ==
    IF t.type_enum_kind \in {"SCHEMA_ALIAS_DEF", "SCHEMA_STRUCT_DEF", "SCHEMA_ENUM_DEF"}
    THEN get_definition(defs, t.name, "") = None \/ OnAliasCycle(defs, t.name)
    ELSE IF t.type_enum_kind = "ARRAY"
    THEN t.element_type # None /\ HasUnresolvableRef(defs, t.element_type)
    ELSE IF t.type_enum_kind = "MAP"
    THEN t.value_type # None /\ HasUnresolvableRef(defs, t.value_type)
    ELSE FALSE

\* Some alias target or struct field type of the schema holds such a reference.
SchemaHasUnresolvableRef(defs) ==
    \E i \in 1..Len(defs) :
        \/ /\ defs[i].cls = "TypeAliasDefinitionV4"
           /\ HasUnresolvableRef(defs, defs[i].target_type)
        \/ /\ defs[i].cls = "StructDefinitionV4"
           /\ \E j \in 1..Len(defs[i].fields) :
                 HasUnresolvableRef(defs, defs[i].fields[j].daxa_type)

\* C11: a validate_schema_integrity call on a schema whose flag is not set and
\* in which some alias target or struct field type holds, at any depth, a
\* reference that is undefined or on an alias cycle ends with DaxaSchemaError
\* and leaves the flag unset.
C11_IntegrityAllOrNothing ==
    [][ ( /\ ~validated
          /\ last'.op = "validate_schema_integrity"
          /\ SchemaHasUnresolvableRef(definitions) )
        => /\ last'.outcome.err = DaxaSchemaError
           /\ ~validated' ]_vars

\* A typed constant whose value is not of the kind of its declared primitive
\* type (an Int for a declared Float is no mismatch).
ConstantMismatch(c) ==
    /\ c.declared_type # None
    /\ is_primitive(c.declared_type.type_enum_kind)
    /\ c.daxa_value.kind # c.declared_type.type_enum_kind
    /\ ~(c.daxa_value.kind = "INT" /\ c.declared_type.type_enum_kind = "FLOAT")
    /\ c.daxa_value.kind \notin {"NULL", "ANY"}

\* C12: a validate_schema_integrity call on a schema whose flag is not set and
\* that holds a constant whose value is not of the kind of its declared
\* primitive type ends with DaxaSchemaError and leaves the flag unset.
C12_IntegrityChecksConstants ==
    [][ ( /\ ~validated
          /\ last'.op = "validate_schema_integrity"
          /\ \E i \in 1..Len(constants) : ConstantMismatch(constants[i]) )
        => /\ last'.outcome.err = DaxaSchemaError
           /\ ~validated' ]_vars

\* C13: a DaxaValidatorV4 construction ends normally or with
\* DaxaValidationError; when it ends normally the schema's integrity flag is
\* set and the validator exists, and when it fails no validator is produced.
C13_ConstructorEnforcesIntegrity ==
    [][ last'.op = "DaxaValidatorV4"
        => /\ last'.outcome.err \in {OK, DaxaValidationError}
           /\ last'.outcome.err = OK => (validated' /\ validator'.built)
           /\ last'.outcome.err # OK => validator' = validator ]_vars

\* C14: the names of the registered definitions are pairwise distinct, and an
\* add_definition call with a name that is registered (for a struct, an enum
\* or an alias) ends with DaxaNameError and leaves the registry as it was,
\* while one with a new name appends the definition.
C14_OneNamespace ==
    /\ [](\A i, j \in 1..Len(definitions) :
             definitions[i].name = definitions[j].name => i = j)
    /\ [][ last'.op = "add_definition"
           => IF \E i \in 1..Len(definitions) : definitions[i].name = last'.text
              THEN /\ last'.outcome.err = DaxaNameError
                   /\ definitions' = definitions
              ELSE /\ last'.outcome.err = OK
                   /\ Len(definitions') = Len(definitions) + 1
                   /\ SubSeq(definitions', 1, Len(definitions)) = definitions
                   /\ definitions'[Len(definitions')].name = last'.text ]_vars

\* C14, witness: an alias definition was refused because its name is
\* registered for an enum.
C14_AliasRefusedForEnumName ==
    /\ last.op = "add_definition"
    /\ last.outcome.err = DaxaNameError
    /\ last.type # None
    /\ \E i \in 1..Len(definitions) :
          /\ definitions[i].name = last.text
          /\ definitions[i].cls = "EnumDefinitionV4"

\* The chain of aliases from the reference t ends, within n steps, in a type
\* that is no alias reference.
RECURSIVE ReachesBase(_, _, _)
ReachesBase(defs, t, n) ==
    IF t.type_enum_kind # "SCHEMA_ALIAS_DEF" THEN TRUE
    ELSE LET d == get_definition(defs, t.name, "")
         IN  /\ n > 0
             /\ d # None
             /\ d.cls = "TypeAliasDefinitionV4"
             /\ ReachesBase(defs, d.target_type, n - 1)

\* The reference t, or an alias target on its chain down to the base type, is
\* optional.
RECURSIVE ChainOptional(_, _, _)
ChainOptional(defs, t, n) ==
    IF t.type_enum_kind # "SCHEMA_ALIAS_DEF" \/ n = 0 THEN t.is_optional
    ELSE \/ t.is_optional
         \/ ChainOptional(defs, get_definition(defs, t.name, "").target_type, n - 1)

\* The last call resolved an alias reference whose chain of aliases reaches a
\* base type.
AcyclicAliasResolved ==
    /\ last.op = "get_resolved_type_fully"
    /\ last.type.type_enum_kind = "SCHEMA_ALIAS_DEF"
    /\ ReachesBase(definitions, last.type, Len(definitions))

\* C15: get_resolved_type_fully on an alias reference with an acyclic chain
\* returns a type that is optional exactly when the reference or an alias
\* target on the chain is optional.
C15_OptionalityAlongChain ==
    AcyclicAliasResolved
    => /\ last.outcome.err = OK
       /\ ResolvedOfLast.type.is_optional
             <=> ChainOptional(definitions, last.type, Len(definitions))

\* C16: get_resolved_type_fully on an alias reference that carries
\* constraints and a default of its own returns a type that carries each of
\* those constraints and that default.
C16_ReferenceModifiersKept ==
    ( /\ AcyclicAliasResolved
      /\ last.type.constraints # <<>>
      /\ last.type.default_value_native # None )
    => /\ last.outcome.err = OK
       /\ \A k \in 1..Len(last.type.constraints) :
             \E m \in 1..Len(ResolvedOfLast.type.constraints) :
                 ResolvedOfLast.type.constraints[m] = last.type.constraints[k]
       /\ ResolvedOfLast.type.default_value_native = last.type.default_value_native

\* C17: a type that parse_type_string made from a bare identifier naming a
\* registered definition resolves, and get_instance_type_enum gives
\* STRUCT_INSTANCE for a struct, ENUM_INSTANCE for an enum, and for an alias
\* the instance kind of the alias's target.
C17_NamedReferenceKinds ==
    ( /\ last.op = "parse_type_string"
      /\ Len(last.text) = 1
      /\ get_definition(definitions, last.text, "") # None )
    => LET named == get_definition(definitions, last.text, "")
           k == get_instance_type_enum(definitions, last.type)
       IN  /\ last.outcome.err = OK
           /\ k.err = OK
           /\ named.cls = "StructDefinitionV4" => k.kind = "STRUCT_INSTANCE"
           /\ named.cls = "EnumDefinitionV4" => k.kind = "ENUM_INSTANCE"
           /\ named.cls = "TypeAliasDefinitionV4"
                 => k.kind = get_instance_type_enum(definitions,
                                                    named.target_type).kind

\* C18: writing to a type that parse_type_string returned leaves the parse
\* cache as it was, whether the call was the first for its string or a cache
\* hit.
C18_ReturnedTypeIndependentOfCache ==
    [][ last'.op = "set_is_optional" => cache' = cache ]_vars

\* The identifiers of the type grammar that occur in the type strings.
Identifiers == {"int", "string", "integer", "User", "Status", "A"}

\* The type grammar: T ::= B | B ?, B ::= identifier | [ T ] | map [ T , T ].
RECURSIVE WellFormed(_)
WellFormed(text) ==
    LET opt == text # <<>> /\ text[Len(text)] = "?"
        b == IF opt THEN SubSeq(text, 1, Len(text) - 1) ELSE text
        n == Len(b)
    IN  \/ n = 1 /\ b[1] \in Identifiers
        \/ /\ n >= 3
           /\ b[1] = "[" /\ b[n] = "]"
           /\ WellFormed(SubSeq(b, 2, n - 1))
        \/ /\ n >= 6
           /\ b[1] = "map" /\ b[2] = "[" /\ b[n] = "]"
           /\ \E k \in 4..(n - 2) :
                 /\ b[k] = ","
                 /\ WellFormed(SubSeq(b, 3, k - 1))
                 /\ WellFormed(SubSeq(b, k + 1, n - 1))

\* The type t is what parse_type_string returns for a well-formed type string.
ParsedWellFormed(t) ==
    \E i \in 1..Len(ParseInputs) :
        /\ WellFormed(ParseInputs[i])
        /\ parse_type_string(<<>>, ParseInputs[i]).err = OK
        /\ parse_type_string(<<>>, ParseInputs[i]).type = t

Malformed ==
    { <<>>, <<"[", "]">>, <<"[", "int">>, <<"int", "?", "?">>, <<"9x">> }

\* C20: parse_type_string on a string outside the type grammar ends with
\* DaxaParsingError or DaxaSchemaError and adds no cache entry for the string.
C20_MalformedRejected ==
    (last.op = "parse_type_string" /\ last.text \in Malformed)
    => /\ last.outcome.err \in {DaxaParsingError, DaxaSchemaError}
       /\ ~Cached(cache, last.text)

\* C21: validating, from the root, a map value against map[string, int]
\* succeeds when the value of every entry is an Int (the empty map included),
\* and fails when some entry's value is of another kind.
C21_MapEntriesDecide ==
    ( /\ last.op = "validate_value"
      /\ last.depth = 0
      /\ last.type = MapOf(Prim("INT", FALSE), FALSE)
      /\ last.val.kind = "STRUCT_INSTANCE" )
    => ( last.outcome.err = OK
         <=> \A i \in 1..Len(last.val.entries) :
                 last.val.entries[i].value.kind = "INT" )

\* The constraint the last constraint call was about.
LastConstraint == last.type.constraints[1]

\* The number n satisfies the bounds of the Range constraint c, each bound
\* strictly when its exclusivity flag is set.
InRange(c, n) ==
    /\ c.has_min => IF c.excl_min THEN n > c.min ELSE n >= c.min
    /\ c.has_max => IF c.excl_max THEN n < c.max ELSE n <= c.max

\* C22: a Range constraint applied to an Int or Float value returns normally
\* exactly when the value satisfies min (strictly when exclusive_min) and max
\* (strictly when exclusive_max), and raises DaxaValidationError otherwise:
\* with max=10 and exclusive_max, 9 is accepted and 10 is rejected.
C22_RangeHonoursBounds ==
    ( /\ last.op = "constraint.validate"
      /\ LastConstraint.cls = "RangeConstraintV4"
      /\ last.val.kind \in {"INT", "FLOAT"} )
    => IF InRange(LastConstraint, last.val.num)
       THEN last.outcome.err = OK
       ELSE last.outcome.err = DaxaValidationError

\* The kinds of value a constraint's validate goes on to check.
Applicable(c, kind) ==
    IF c.cls = "LengthConstraintV4" THEN kind \in {"STRING", "BYTES", "ARRAY"}
    ELSE IF c.cls = "RangeConstraintV4" THEN kind \in {"INT", "FLOAT"}
    ELSE kind = "STRING"

\* C27: a Length, Range or Regex constraint applied to a value of a kind it
\* does not apply to returns normally whatever its parameters, and
\* validate_value of that value ends the same way against the type with the
\* constraint as against the type without it.
C27_InapplicableConstraintSkipped ==
    (last.op = "constraint.validate" /\ ~Applicable(LastConstraint, last.val.kind))
    => /\ last.outcome.err = OK
       /\ validate_value(definitions, TRUE, last.val, last.type, <<>>, 0)
            = validate_value(definitions, TRUE, last.val,
                             [last.type EXCEPT !.constraints = <<>>], <<>>, 0)

\* C27, witness: Length(min=2) was applied to an Int value and returned.
C27_LengthOnIntReturned ==
    /\ last.op = "constraint.validate"
    /\ LastConstraint.cls = "LengthConstraintV4"
    /\ LastConstraint.has_min /\ LastConstraint.min = 2
    /\ last.val = IntV(5)
    /\ last.outcome.err = OK

\* C28: constructing Length(min, max) ends with DaxaSchemaError when a given
\* bound is negative or min > max and succeeds otherwise, so a constructed
\* Length has 0 <= min <= max; applied to a String, Bytes or Array value it
\* returns normally exactly when min <= len(value) <= max (an absent bound
\* ignored, both bounds inclusive) and raises DaxaValidationError otherwise.
C28_LengthBounds ==
    /\ last.op = "LengthConstraintV4"
          => LET c == LastConstraint
             IN  IF \/ c.has_min /\ c.min < 0
                    \/ c.has_max /\ c.max < 0
                    \/ c.has_min /\ c.has_max /\ c.min > c.max
                 THEN last.outcome.err = DaxaSchemaError
                 ELSE last.outcome.err = OK
    /\ (last.op = "constraint.validate" /\ LastConstraint.cls = "LengthConstraintV4")
          => LET c == LastConstraint
                 l == IF last.val.kind = "ARRAY" THEN Len(last.val.items)
                      ELSE Len(last.val.text)
             IN  /\ c.has_min => 0 <= c.min
                 /\ c.has_max => 0 <= c.max
                 /\ (c.has_min /\ c.has_max) => c.min <= c.max
                 /\ last.val.kind \in {"STRING", "BYTES", "ARRAY"}
                       => IF (c.has_min => c.min <= l) /\ (c.has_max => l <= c.max)
                          THEN last.outcome.err = OK
                          ELSE last.outcome.err = DaxaValidationError

\* C28, witness: Length(min=1, max=2) accepted the string "ab", whose length
\* is the upper bound.
C28_UpperBoundInclusive ==
    /\ last.op = "constraint.validate"
    /\ LastConstraint = LengthConstraintV4(TRUE, 1, TRUE, 2)
    /\ last.val = StringV(<<"a", "b">>)
    /\ last.outcome.err = OK

\* The validation of the child value v of the last call's value against the
\* type t declared for it, at path_context + [key] and one level deeper.
ChildOutcome(v, t, key) ==
    validate_value(definitions, last.strict, v, t, <<key>>, last.depth + 1)

\* Some array element, map entry value or present declared struct field of the
\* value of the last call fails its own validation.
SomeChildFails ==
    \/ /\ last.val.kind = "ARRAY"
       /\ last.type.type_enum_kind = "ARRAY"
       /\ \E i \in 1..Len(last.val.items) :
             ChildOutcome(last.val.items[i], last.type.element_type,
                          str(i - 1)).err # OK
    \/ /\ last.val.kind = "STRUCT_INSTANCE"
       /\ last.type.type_enum_kind = "MAP"
       /\ \E i \in 1..Len(last.val.entries) :
             ChildOutcome(last.val.entries[i].value, last.type.value_type,
                          last.val.entries[i].key).err # OK
    \/ /\ last.val.kind = "STRUCT_INSTANCE"
       /\ last.type.type_enum_kind = "SCHEMA_STRUCT_DEF"
       /\ get_definition(definitions, last.type.name, "StructDefinitionV4") # None
       /\ LET fields == get_definition(definitions, last.type.name,
                                       "StructDefinitionV4").fields
          IN  \E j \in 1..Len(fields) :
                  /\ HasKey(last.val.entries, fields[j].name)
                  /\ ChildOutcome(Lookup(last.val.entries, fields[j].name),
                                  fields[j].daxa_type, fields[j].name).err # OK

C26_AnyWrapperTransparent ==
    ( /\ last.op = "validate_value"
      /\ last.depth <= MAX_RECURSION_DEPTH_V4
      /\ last.val.kind = "ANY"
      /\ get_instance_type_enum(definitions, last.type).err = OK
      /\ get_instance_type_enum(definitions, last.type).kind # "ANY" )
    => IF last.val.inner # <<>>
       THEN last.outcome.err = OK
              <=> validate_value(definitions, last.strict, last.val.inner[1],
                                 last.type, <<>>, last.depth + 1).err = OK
       ELSE last.outcome.err = DaxaTypeError

\* Every alias target and every struct field type of the registry resolves:
\* get_resolved_type_fully returns a type for it.
AllRegisteredResolve(defs) ==
    \A i \in 1..Len(defs) :
        /\ defs[i].cls = "TypeAliasDefinitionV4"
              => get_resolved_type_fully(defs, defs[i].target_type,
                                         RecursionLimit).err = OK
        /\ defs[i].cls = "StructDefinitionV4"
              => \A j \in 1..Len(defs[i].fields) :
                     get_resolved_type_fully(defs, defs[i].fields[j].daxa_type,
                                             RecursionLimit).err = OK

\* C29: in every state reached by add_definition, add_constant,
\* parse_type_string, validate_schema_integrity and validator construction,
\* when the integrity flag is set every registered alias target and struct
\* field type resolves.
C29_FlagImpliesResolvable ==
    validated => AllRegisteredResolve(definitions)

\* C23: a validate_value call, whether it returns or raises, leaves the
\* definitions, the constants, the parse cache and the integrity flag of the
\* schema as they were, and leaves the value and the expected type it was
\* given as they were.
C23_ValidateValueWritesNothing ==
    [][ \A c \in Callers :
            (callers[c].pc = "validate" /\ callers'[c].pc = "done")
            => /\ UNCHANGED <<definitions, constants, cache, validated>>
               /\ callers'[c].val = callers[c].val
               /\ callers'[c].ret = callers[c].ret ]_vars

\* C23, witness: a caller validated a value against the type its parse call
\* had stored in the cache, the call raised, and the cache holds that type.
C23_ValidatedAgainstCachedType ==
    \E c \in Callers :
        /\ callers[c].pc = "done"
        /\ callers[c].missed
        /\ callers[c].outcome.err # OK
        /\ Cached(cache, callers[c].type_str)
        /\ CacheEntry(cache, callers[c].type_str) = callers[c].ret

\* What one caller alone gets on a schema with an empty cache.
SequentialParse(type_str) == parse_type_string(<<>>, type_str)

\* C24: for every interleaving of two callers that parse the same type string
\* on an integrity-confirmed schema and validate their own values, both parse
\* calls return the type a sequential parse returns, the cache ends with one
\* entry for the string, equal to that of a sequential parse, and each
\* validation ends as it does when run alone.
C24_RacingParsesAgree ==
    /\ \A c \in Callers :
          /\ callers[c].pc \in {"validate", "done"}
                => callers[c].ret = SequentialParse(callers[c].type_str).type
          /\ callers[c].pc = "done"
                => callers[c].outcome =
                       validate_value(definitions, validator.strict_fields,
                                      callers[c].val,
                                      SequentialParse(callers[c].type_str).type,
                                      <<>>, 0)
    /\ (\A c \in Callers : callers[c].pc = "done")
          => /\ callers[1].ret = callers[2].ret
             /\ \A c \in Callers :
                   /\ Cardinality({i \in 1..Len(cache) :
                                       cache[i].key = callers[c].type_str}) = 1
                   /\ CacheEntry(cache, callers[c].type_str)
                        = CacheEntry(SequentialParse(callers[c].type_str).cache,
                                     callers[c].type_str)

\* C24, witness: both callers missed the cache for [int]?, both stored, both
\* validated, and the cache holds one entry for the string.
C24_BothMissedAndStored ==
    /\ \A c \in Callers :
          /\ callers[c].pc = "done"
          /\ callers[c].missed
          /\ callers[c].type_str = <<"[", "int", "]", "?">>
    /\ Cardinality({i \in 1..Len(cache) : cache[i].key = <<"[", "int", "]", "?">>}) = 1

\* The values validate_value may be called on from a frame for v: the
\* elements of an array, the entry values of a map or struct instance, and the
\* DaxaValue an Any value wraps.
SubValues(v) ==
    {v.items[i] : i \in 1..Len(v.items)}
    \cup {v.entries[i].value : i \in 1..Len(v.entries)}
    \cup {v.inner[i] : i \in 1..Len(v.inner)}

\* The call sites of lines 104, 154, 165 and 179, whatever type the frame
\* validates against: each passes a sub-value of the frame's value.
CallSitesDescend(f) ==
    \A j \in 1..Len(CallTypes) :
        LET r == get_resolved_type_fully(definitions, CallTypes[j], RecursionLimit)
            items == IF r.err = OK
                     THEN resolved_items(definitions, validator.strict_fields,
                                         f.val, r.type, f.path)
                     ELSE <<>>
        IN  \A k \in 1..Len(items) :
                items[k].kind = "call" => items[k].val \in SubValues(f.val)

FramesAgreeWithValidateValue ==
    (last.op = "validate_value" /\ stack = <<>>)
    => last.outcome = validate_value(definitions, last.strict, last.val, last.type,
                                     <<>>, last.depth)

====
